---- MODULE Spec2Model ----
(***************************************************************************)
(* Handle registries and table views of arrow-rs-wasm.                     *)
(*                                                                         *)
(*   core.rs   handles::HandleRegistry<T> behind the global mutex          *)
(*             TABLE_REGISTRY, reached through with_table_registry         *)
(*   table.rs  Table::{num_rows, slice, select, filter, dispose,           *)
(*             get_column} and Row::{get, get_at}                          *)
(*   column.rs Column::slice, the Column accessors and ArrayBuilder         *)
(*   fs.rs     FileFormat::detect_format, the table writers and            *)
(*             read_table_from_bytes                                       *)
(*   ipc.rs    compression options and write_table_with_compression        *)
(*   plugin.rs the plugin registry behind PLUGIN_REGISTRY                  *)
(*   compute.rs cast / take / filter / sort                                *)
(*   mem.rs    TableRegistry behind its own global mutex, and the          *)
(*             create / get / free / clear / statistics functions on it    *)
(*                                                                         *)
(* HandleId and TableHandle are u32 in the source.  The id width is scaled *)
(* down to HandleBits bits so that a run of inserts reaches the wrap of    *)
(* the counter, and the usize width to UsizeBits bits so that the word     *)
(* maximum is an enumerable argument; the arithmetic is the source's,      *)
(* modulo 2^width.                                                         *)
(***************************************************************************)
EXTENDS Integers, Sequences, FiniteSets, TLC

\* ------------------------------------------------------------------ bounds
HandleBits == 2          \* width of HandleId / TableHandle in the model
MaxLive    == 2          \* most entries kept in a registry at one time
MaxRows    == 2          \* most rows of a sample record batch
UsizeBits  == 3          \* width of usize in the model (2^UsizeBits > MaxRows + 2)

HandleModulus == 2 ^ HandleBits
HandleMax     == HandleModulus - 1
Handles       == 0 .. HandleMax

\* usize: offsets and lengths are machine words
UsizeModulus == 2 ^ UsizeBits
UsizeMax     == UsizeModulus - 1

VARIABLES
  \* core.rs handles::TABLE_REGISTRY
  next_id,        \* HandleRegistry.next_id
  objects,        \* HandleRegistry.objects : handle -> record batch
  lock_held,      \* the mutex TABLE_REGISTRY is locked
  poisoned,       \* the mutex TABLE_REGISTRY is poisoned
  call,           \* the boundary call in flight and its position
  result,         \* outcome of the last boundary call that ended
  issued,         \* history: handles ever returned by insert
  removed,        \* history: handles ever removed
  \* build configuration of the crate, fixed per run
  overflow_checks,\* integer overflow panics (debug) or wraps (release)
  panic_unwind,   \* a panic unwinds (drops guards) or aborts (trap)
  \* mem.rs TABLE_REGISTRY
  tables,         \* TableRegistry.tables : handle -> ManagedTable
  next_handle,    \* TableRegistry.next_handle
  mem_lock_held,  \* the mutex mem::TABLE_REGISTRY is locked
  mem_poisoned,   \* the mutex mem::TABLE_REGISTRY is poisoned
  mem_hung,       \* a mem call is blocked on the mutex for ever
  mem_result,     \* outcome of the last mem call that ended
  mem_issued,     \* history: handles ever returned by register_table
  mem_removed,    \* history: handles ever freed or cleared
  \* column.rs ArrayBuilder (one builder object of the host)
  builder,        \* ArrayBuilder: data_type and the cells appended so far
  builder_result, \* outcome of the last ArrayBuilder call
  \* Column / Row views of the host
  view_calls,     \* accessor calls made on the views so far
  \* fs.rs FileFormat::detect_format
  buffer,         \* the bytes handed to detect_format
  detected,       \* what detect_format returned for them
  \* ipc.rs / fs.rs writers and readers
  lz4_available,  \* build: try_with_compression(Some(LZ4_FRAME)) succeeds
  zstd_available, \* build: try_with_compression(Some(ZSTD)) succeeds
  encoded,        \* the bytes the last writer call returned
  io_result,      \* outcome of the last ipc.rs / fs.rs call
  \* plugin.rs PLUGIN_REGISTRY
  plugins,        \* PluginRegistry.plugins: id -> plugin
  metadata,       \* PluginRegistry.metadata: id -> PluginMetadata
  plugin_result,  \* outcome of the last plugin.rs call
  registered_ids  \* history: ids register_plugin accepted since the last clear

buildVars == <<overflow_checks, panic_unwind>>
coreVars  == <<next_id, objects, lock_held, poisoned, call, result, issued, removed>>
memVars   == <<tables, next_handle, mem_lock_held, mem_poisoned, mem_hung,
               mem_result, mem_issued, mem_removed>>
builderVars == <<builder, builder_result>>
\* state outside the two table registries
fsVars    == <<buffer, detected>>
ioVars    == <<lz4_available, zstd_available, encoded, io_result>>
\* state of the modules modelled after the views
pluginVars == <<plugins, metadata, plugin_result, registered_ids>>
lateVars  == <<fsVars, ioVars, pluginVars>>
auxVars   == <<builderVars, view_calls, lateVars>>
vars      == <<coreVars, memVars, buildVars, auxVars>>

\* --------------------------------------------------------- record batches
Null == [is_null |-> TRUE, value |-> 0]
Val(v) == [is_null |-> FALSE, value |-> v]

\* A record batch of n rows with the two columns of the tests' schema:
\* "id" Int32 holding 1..n, "name" Utf8 whose last cell is null.
SampleBatch(n) ==
  [fields  |-> << [name |-> "id", type |-> "Int32"],
                  [name |-> "name", type |-> "Utf8"] >>,
   columns |-> << [i \in 1..n |-> Val(i)],
                  [i \in 1..n |-> IF i = n THEN Null ELSE Val(10 + i)] >>]

\* A batch with a column type the row-wise filter does not support.
Int64Batch ==
  [fields  |-> << [name |-> "big", type |-> "Int64"] >>,
   columns |-> << <<Val(7)>> >>]

SampleBatches == {SampleBatch(n) : n \in 0..MaxRows} \cup {Int64Batch}

num_columns(batch) == Len(batch.fields)
num_rows(batch) == IF Len(batch.columns) = 0 THEN 0 ELSE Len(batch.columns[1])

\* RecordBatch::slice(offset, length) within bounds
batch_slice(batch, offset, length) ==
  [fields  |-> batch.fields,
   columns |-> [c \in 1..Len(batch.columns) |->
                  SubSeq(batch.columns[c], offset + 1, offset + length)]]

\* ------------------------------------------------------- HandleRegistry<T>
\* HandleRegistry::get
get(objs, id) == IF id \in DOMAIN objs THEN <<objs[id]>> ELSE <<>>

\* the HashMap insert of HandleRegistry::insert
map_insert(objs, id, object) ==
  [h \in (DOMAIN objs) \cup {id} |-> IF h = id THEN object ELSE objs[h]]

\* the HashMap remove of HandleRegistry::remove
map_remove(objs, id) == [h \in (DOMAIN objs) \ {id} |-> objs[h]]

\* next_id.wrapping_add(1)
wrapping_add(id) == (id + 1) % HandleModulus

\* ---------------------------------------------------------------- results
\* An error message is its format string and the values formatted into it.
Msg(f, a) == [fmt |-> f, args |-> a]
NoMsg == Msg("", <<>>)

\* What an accessor hands to the host.
RetUndefined == [kind |-> "undefined", type |-> "", value |-> 0, text |-> NoMsg]
RetNull == [kind |-> "null", type |-> "", value |-> 0, text |-> NoMsg]
RetValue(type, v) == [kind |-> "value", type |-> type, value |-> v, text |-> NoMsg]
RetText(m) == [kind |-> "text", type |-> "", value |-> 0, text |-> m]
RetNumber(n) == RetValue("usize", n)
RetBool(b) == RetValue("bool", IF b THEN 1 ELSE 0)

\* The accessor's part of a call's outcome.  A view is (table handle h,
\* column index ci) or (table handle h, row index row); index / name is the
\* accessor's argument.  failed: the call did not return.  resolved, inside,
\* cell and disposed record what the registry held when the accessor ran:
\* the handle resolved, the position was inside the data, the cell there,
\* and whether the handle had been disposed of before.
ViewNoResult == [op |-> "none", handle |-> 0, ret |-> RetUndefined, failed |-> FALSE,
                 resolved |-> FALSE, inside |-> FALSE, cell |-> Null, type |-> "",
                 disposed |-> FALSE]

\* What the last boundary call left behind, NoResult while a call is in
\* flight: stage is how far the call got ("entry": no further than taking the
\* lock and its checks, "insert": as far as registering its result); kind is "ok", "err" or "panic"; handle and
\* col are the returned Table / Column; input, offset, length and rows record
\* the call's arguments and the row count the call read from the registry.
NoResult == [op |-> "none", kind |-> "none", handle |-> 0, col |-> 0, value |-> 0,
             msg |-> NoMsg, input |-> 0, live |-> FALSE, stage |-> "entry",
             offset |-> 0, length |-> 0, rows |-> 0, view |-> ViewNoResult]

\* The call in flight.  phase: "idle"; "nested_lock", the closure passed to
\* with_table_registry is about to call with_table_registry again to insert
\* `pending`; "predicate", Table::filter is inside predicate.call1 for row
\* `row`; "deadlocked", blocked on the mutex for ever.
Idle == [op |-> "none", phase |-> "idle", handle |-> 0, pending |-> SampleBatch(0),
         row |-> 0, keep_rows |-> <<>>, offset |-> 0, length |-> 0, rows |-> 0]

Ok(op, h, newh)  == [NoResult EXCEPT !.op = op, !.kind = "ok", !.input = h, !.handle = newh]
Err(op, h, m)    == [NoResult EXCEPT !.op = op, !.kind = "err", !.input = h, !.msg = m]
Panicked(op, h)  == [NoResult EXCEPT !.op = op, !.kind = "panic", !.input = h]

\* ------------------------------------------------ the mutex TABLE_REGISTRY
\* Mutex::lock().unwrap() succeeds only on a free, unpoisoned mutex.
CanLock == ~lock_held /\ ~poisoned

\* A panic.  `holding`: a guard of TABLE_REGISTRY is alive in the frames the
\* panic leaves.  Unwinding drops the guard, which frees and poisons the
\* mutex; an aborting build (the wasm trap) drops nothing, so the mutex stays
\* locked.
PanicWith(r, holding) ==
  /\ result' = r
  /\ call' = Idle
  /\ IF holding
       THEN IF panic_unwind
              THEN lock_held' = FALSE /\ poisoned' = TRUE
              ELSE lock_held' = TRUE /\ UNCHANGED poisoned
       ELSE UNCHANGED <<lock_held, poisoned>>
  /\ UNCHANGED <<next_id, objects, issued, removed>>

Panic(op, h, holding) == PanicWith(Panicked(op, h), holding)

\* Blocked on the mutex this thread already holds.
Deadlock(op, h) ==
  /\ call' = [call EXCEPT !.op = op, !.handle = h, !.phase = "deadlocked"]
  /\ result' = NoResult
  /\ UNCHANGED <<next_id, objects, lock_held, poisoned, issued, removed>>

\* with_table_registry entered when the lock cannot be taken: locking a
\* mutex the thread holds never returns (it blocks or panics, std leaves it
\* open); on a poisoned mutex lock() is Err and unwrap() panics.
EntryFails(op, h) ==
  IF lock_held
    THEN Deadlock(op, h) \/ Panic(op, h, FALSE)
    ELSE Panic(op, h, FALSE)

\* The closure returned and with_table_registry dropped its guard.
Return(r) ==
  /\ result' = r
  /\ call' = Idle
  /\ lock_held' = FALSE
  /\ UNCHANGED poisoned

\* HandleRegistry::insert: the handle it returns and the registry it leaves.
insert(objs, nid, object) ==
  [id |-> nid, next_id |-> wrapping_add(nid), objects |-> map_insert(objs, nid, object)]

\* HandleRegistry::remove
remove(objs, id) == map_remove(objs, id)

\* The registry keeps at most MaxLive entries in the model.
RoomFor(id) == id \in DOMAIN objects \/ Cardinality(DOMAIN objects) < MaxLive

\* ------------------------------------------------------ table.rs: basics
\* create_table_from_batch (also the tail of table_from_ipc / table_from_json)
CreateTableFromBatch(batch) ==
  /\ UNCHANGED <<memVars, buildVars, auxVars>>
  /\ call.phase = "idle"
  /\ IF CanLock
       THEN LET r == insert(objects, next_id, batch) IN
            /\ RoomFor(r.id)
            /\ next_id' = r.next_id
            /\ objects' = r.objects
            /\ issued' = issued \cup {r.id}
            /\ Return(Ok("create", 0, r.id))
            /\ UNCHANGED removed
       ELSE EntryFails("create", 0)

\* Table::dispose
Dispose(h) ==
  /\ UNCHANGED <<memVars, buildVars, auxVars>>
  /\ call.phase = "idle"
  /\ IF CanLock
       THEN /\ objects' = remove(objects, h)
            /\ removed' = removed \cup ({h} \cap DOMAIN objects)
            /\ Return(Ok("dispose", h, 0))
            /\ UNCHANGED <<next_id, issued>>
       ELSE EntryFails("dispose", h)

\* Table::num_rows
NumRows(h) ==
  /\ UNCHANGED <<memVars, buildVars, auxVars>>
  /\ call.phase = "idle"
  /\ IF CanLock
       THEN /\ Return([Ok("num_rows", h, 0) EXCEPT
                        !.value = IF get(objects, h) = <<>> THEN 0
                                  ELSE num_rows(get(objects, h)[1])])
            /\ UNCHANGED <<next_id, objects, issued, removed>>
       ELSE EntryFails("num_rows", h)

\* The inner with_table_registry(|reg| reg.insert(pending)) of slice, select,
\* filter, Column::slice, cast, take, filter and sort, called from inside the
\* closure of the outer with_table_registry.
NestedInsert ==
  /\ UNCHANGED <<memVars, buildVars, auxVars>>
  /\ call.phase = "nested_lock"
  /\ IF lock_held
       THEN \/ Deadlock(call.op, call.handle)
            \/ PanicWith([Panicked(call.op, call.handle) EXCEPT
                            !.live = TRUE, !.stage = "insert", !.offset = call.offset,
                            !.length = call.length, !.rows = call.rows], TRUE)
       ELSE IF poisoned
         THEN Panic(call.op, call.handle, FALSE)
         ELSE LET r == insert(objects, next_id, call.pending) IN
              /\ next_id' = r.next_id
              /\ objects' = r.objects
              /\ issued' = issued \cup {r.id}
              /\ result' = [Ok(call.op, call.handle, r.id) EXCEPT
                              !.live = TRUE, !.stage = "insert", !.offset = call.offset,
                              !.length = call.length, !.rows = call.rows]
              /\ call' = Idle
              /\ UNCHANGED <<lock_held, poisoned, removed>>

\* The closure reached its inner with_table_registry holding the guard.
ToNestedInsert(op, h, batch, offset, length, rows) ==
  /\ call' = [Idle EXCEPT !.op = op, !.phase = "nested_lock", !.handle = h,
                          !.pending = batch, !.offset = offset, !.length = length,
                          !.rows = rows]
  /\ lock_held' = TRUE
  /\ result' = NoResult
  /\ UNCHANGED <<next_id, objects, poisoned, issued, removed>>

\* ------------------------------------------------------- Table::slice
SliceOffsets == (0 .. MaxRows + 1) \cup {UsizeMax}
SliceLengths == (0 .. MaxRows + 1) \cup {UsizeMax}

SliceErr(h, offset, length, rows, m) ==
  [Err("slice", h, m) EXCEPT !.live = TRUE, !.offset = offset, !.length = length,
                             !.rows = rows]

SlicePanic(h, offset, length, rows) ==
  [Panicked("slice", h) EXCEPT !.live = TRUE, !.offset = offset, !.length = length,
                               !.rows = rows]

\* The closure of Table::slice up to its inner with_table_registry.
\* `offset + length` is a usize addition: it panics in a build with overflow
\* checks and wraps otherwise; a wrapped sum passes the range test and
\* RecordBatch::slice is then called outside its contract
\* (it panics when offset + length exceeds the row count).
SliceBody(h, offset, length) ==
  IF get(objects, h) = <<>>
    THEN /\ Return(Err("slice", h, Msg("Table has been disposed or is invalid", <<>>)))
         /\ UNCHANGED <<next_id, objects, issued, removed>>
    ELSE LET batch == get(objects, h)[1]
             rows  == num_rows(batch)
             sum   == (offset + length) % UsizeModulus
         IN
         IF length = 0
           THEN /\ Return(SliceErr(h, offset, length, rows,
                            Msg("Slice length must be greater than 0", <<>>)))
                /\ UNCHANGED <<next_id, objects, issued, removed>>
         ELSE IF offset >= rows
           THEN /\ Return(SliceErr(h, offset, length, rows,
                            Msg("Slice offset {} is out of bounds. Table has {} rows",
                                <<offset, rows>>)))
                /\ UNCHANGED <<next_id, objects, issued, removed>>
         ELSE IF offset + length > UsizeMax /\ overflow_checks
           THEN PanicWith(SlicePanic(h, offset, length, rows), TRUE)
         ELSE IF sum > rows
           THEN /\ Return(SliceErr(h, offset, length, rows,
                            Msg("Slice range [{}..{}] exceeds table bounds. Table has {} rows",
                                <<offset, sum, rows>>)))
                /\ UNCHANGED <<next_id, objects, issued, removed>>
         ELSE IF offset + length > rows
           THEN PanicWith(SlicePanic(h, offset, length, rows), TRUE)
         ELSE ToNestedInsert("slice", h, batch_slice(batch, offset, length),
                             offset, length, rows)

Slice(h, offset, length) ==
  /\ UNCHANGED <<memVars, buildVars, auxVars>>
  /\ call.phase = "idle"
  /\ IF CanLock THEN SliceBody(h, offset, length) ELSE EntryFails("slice", h)

\* ------------------------------------------------------- Table::select
SelectNames == { <<>>, <<"id">>, <<"name", "id">>, <<"id", "id">>,
                 <<"zip">>, <<"id", "zip">> }

FieldNames(batch) == {batch.fields[i].name : i \in 1..Len(batch.fields)}

\* Schema::index_of: the first field of that name (1-based here)
index_of(batch, name) ==
  CHOOSE i \in 1..Len(batch.fields) :
    /\ batch.fields[i].name = name
    /\ \A j \in 1..(i - 1) : batch.fields[j].name # name

\* the first requested name the schema lacks
FirstMissing(batch, names) ==
  names[CHOOSE i \in 1..Len(names) :
          /\ names[i] \notin FieldNames(batch)
          /\ \A j \in 1..(i - 1) : names[j] \in FieldNames(batch)]

\* the batch of the selected columns, in the order asked
select_columns(batch, names) ==
  [fields  |-> [k \in 1..Len(names) |-> batch.fields[index_of(batch, names[k])]],
   columns |-> [k \in 1..Len(names) |-> batch.columns[index_of(batch, names[k])]]]

\* RecordBatch::try_new refuses a batch without columns (no row count given).
SelectBody(h, names) ==
  IF get(objects, h) = <<>>
    THEN /\ Return(Err("select", h, Msg("Table not found", <<>>)))
         /\ UNCHANGED <<next_id, objects, issued, removed>>
    ELSE LET batch == get(objects, h)[1] IN
         IF \E i \in 1..Len(names) : names[i] \notin FieldNames(batch)
           THEN /\ Return([Err("select", h, Msg("Column '{}' not found",
                                                <<FirstMissing(batch, names)>>))
                              EXCEPT !.live = TRUE])
                /\ UNCHANGED <<next_id, objects, issued, removed>>
         ELSE IF Len(names) = 0
           THEN /\ Return([Err("select", h, Msg("Failed to create selected table: {}", <<>>))
                              EXCEPT !.live = TRUE])
                /\ UNCHANGED <<next_id, objects, issued, removed>>
         ELSE ToNestedInsert("select", h, select_columns(batch, names),
                             0, 0, num_rows(batch))

Select(h, names) ==
  /\ UNCHANGED <<memVars, buildVars, auxVars>>
  /\ call.phase = "idle"
  /\ IF CanLock THEN SelectBody(h, names) ELSE EntryFails("select", h)

\* ------------------------------------------------------- Table::filter
FilterTypes == {"Int32", "Float64", "Utf8", "Boolean"}

TypesSupported(batch) ==
  \A i \in 1..Len(batch.fields) : batch.fields[i].type \in FilterTypes

\* the rows keep_rows (0-based row indices) of every column
take_rows(batch, keep) ==
  [fields  |-> batch.fields,
   columns |-> [c \in 1..Len(batch.columns) |->
                  [k \in 1..Len(keep) |-> batch.columns[c][keep[k] + 1]]]]

\* Table::filter after its row loop: build the filtered batch, then the inner
\* with_table_registry.  The guard of the outer one is still held.
FilterFinish(h, keep) ==
  LET batch == get(objects, h)[1] IN
  IF ~TypesSupported(batch)
    THEN /\ Return([Err("filter", h,
                        IF Len(keep) = 0
                          THEN Msg("Unsupported data type for filtering: {}", <<>>)
                          ELSE Msg("Failed to filter columns: {}", <<>>))
                      EXCEPT !.live = TRUE, !.rows = num_rows(batch)])
         /\ UNCHANGED <<next_id, objects, issued, removed>>
    ELSE ToNestedInsert("filter", h, take_rows(batch, keep), 0, 0, num_rows(batch))

\* Table::filter up to the first predicate.call1
Filter(h) ==
  /\ UNCHANGED <<memVars, buildVars, auxVars>>
  /\ call.phase = "idle"
  /\ IF ~CanLock THEN EntryFails("filter", h)
     ELSE IF get(objects, h) = <<>>
       THEN /\ Return(Err("filter", h, Msg("Table not found", <<>>)))
            /\ UNCHANGED <<next_id, objects, issued, removed>>
     ELSE IF num_rows(get(objects, h)[1]) = 0
       THEN FilterFinish(h, <<>>)
     ELSE /\ call' = [Idle EXCEPT !.op = "filter", !.phase = "predicate", !.handle = h,
                                   !.rows = num_rows(get(objects, h)[1])]
          /\ lock_held' = TRUE
          /\ result' = NoResult
          /\ UNCHANGED <<next_id, objects, poisoned, issued, removed>>

\* after predicate.call1 for row call.row: next row, or the end of the loop
AfterPredicate(keep) ==
  IF call.row + 1 < call.rows
    THEN /\ call' = [call EXCEPT !.row = call.row + 1, !.keep_rows = keep]
         /\ UNCHANGED <<next_id, objects, lock_held, poisoned, result, issued, removed>>
    ELSE FilterFinish(call.handle, keep)

\* predicate.call1 returned: truthy keeps the row, falsy or a thrown
\* exception (Err) skips it.
PredicateReturns(outcome) ==
  /\ UNCHANGED <<memVars, buildVars, auxVars>>
  /\ call.phase = "predicate"
  /\ AfterPredicate(IF outcome = "truthy"
                       THEN Append(call.keep_rows, call.row)
                       ELSE call.keep_rows)

\* The predicate calls a registry operation (Table::num_rows): its
\* with_table_registry locks the mutex Table::filter holds.  It blocks, or
\* it panics; the panic surfaces in the host as an exception, call1 returns
\* Err and the row is skipped.
PredicateReenters ==
  /\ UNCHANGED <<memVars, buildVars, auxVars>>
  /\ call.phase = "predicate"
  /\ IF lock_held
       THEN \/ Deadlock(call.op, call.handle)
            \/ AfterPredicate(call.keep_rows)
       ELSE AfterPredicate(call.keep_rows)

\* ------------------------------------------------------- Column::slice
ColumnIndexes == 0 .. 2

\* the single-column batch (field, cells)
column_batch(field, cells) == [fields |-> <<field>>, columns |-> <<cells>>]

Min(a, b) == IF a < b THEN a ELSE b

\* Column::slice returns a Column in every case: the new single-column
\* table, or the column it was called on.
SameColumn(op, h, ci, live) ==
  /\ Return([Ok(op, h, h) EXCEPT !.col = ci, !.live = live])
  /\ UNCHANGED <<next_id, objects, issued, removed>>

ColumnSliceBody(h, ci, offset, length) ==
  IF get(objects, h) = <<>> THEN SameColumn("column_slice", h, ci, FALSE)
  ELSE LET batch == get(objects, h)[1] IN
       IF ci >= num_columns(batch) THEN SameColumn("column_slice", h, ci, TRUE)
       ELSE LET field     == batch.fields[ci + 1]
                column    == batch.columns[ci + 1]
                array_len == Len(column)
            IN
            IF offset >= array_len
              THEN IF field.type \in FilterTypes
                     THEN ToNestedInsert("column_slice", h, column_batch(field, <<>>),
                                         offset, length, array_len)
                     ELSE SameColumn("column_slice", h, ci, TRUE)
              ELSE LET actual_length == Min(length, array_len - offset) IN
                   ToNestedInsert("column_slice", h,
                                  column_batch(field, SubSeq(column, offset + 1,
                                                             offset + actual_length)),
                                  offset, length, array_len)

ColumnSlice(h, ci, offset, length) ==
  /\ UNCHANGED <<memVars, buildVars, auxVars>>
  /\ call.phase = "idle"
  /\ IF CanLock THEN ColumnSliceBody(h, ci, offset, length)
                ELSE EntryFails("column_slice", h)

\* ------------------------------------------- compute.rs: cast/take/filter/sort
\* DataType.type_id -> arrow type of compute::cast; <<>> when unsupported
TargetType(type_id) ==
  CASE type_id = 1 -> <<"Boolean">>
    [] type_id = 2 -> <<"Int32">>
    [] type_id = 3 -> <<"Int64">>
    [] type_id = 4 -> <<"Float32">>
    [] type_id = 5 -> <<"Float64">>
    [] type_id = 6 -> <<"Utf8">>
    [] OTHER -> <<>>

TypeIds == {0, 1, 3, 6}

\* arrow_cast::cast of one cell: nulls stay null, a Boolean target is the
\* test for non-zero, the other targets keep the number.
cast_cell(cell, type) ==
  IF cell.is_null THEN Null
  ELSE IF type = "Boolean" THEN Val(IF cell.value = 0 THEN 0 ELSE 1)
  ELSE Val(cell.value)

\* arrow_select::take: an index outside the array is an error
TakeIndices == { <<>>, <<0>>, <<1, 0>>, <<MaxRows>> }

\* arrow_select::filter: a mask longer than the array is an error, rows
\* beyond a shorter mask are dropped
Masks == { <<>>, <<TRUE>>, <<FALSE, TRUE>>, <<TRUE, TRUE, TRUE, TRUE>> }

RECURSIVE mask_rows(_, _)
mask_rows(mask, i) ==
  IF i > Len(mask) THEN <<>>
  ELSE IF mask[i] THEN <<i - 1>> \o mask_rows(mask, i + 1)
  ELSE mask_rows(mask, i + 1)

\* sort_to_indices with nulls_first = false, then take
CellLeq(a, b, desc) ==
  \/ b.is_null
  \/ ~a.is_null /\ ~b.is_null /\ (IF desc THEN a.value >= b.value ELSE a.value <= b.value)

sort_cells(cells, desc) ==
  LET n == Len(cells)
      perm == CHOOSE p \in [1..n -> 1..n] :
                /\ \A i, j \in 1..n : i # j => p[i] # p[j]
                /\ \A i \in 1..n : \A j \in (i + 1)..n :
                     /\ CellLeq(cells[p[i]], cells[p[j]], desc)
                     /\ (cells[p[i]] = cells[p[j]] => p[i] < p[j])
  IN [i \in 1..n |-> cells[perm[i]]]

\* The kernel of a compute operation on one column: <<batch>> or an error.
Kernel(op, arg, field, column) ==
  CASE op = "cast" ->
         IF TargetType(arg) = <<>>
           THEN [ok |-> FALSE, msg |-> Msg("Unsupported target type for casting", <<>>)]
           ELSE [ok |-> TRUE,
                 batch |-> column_batch(
                   [name |-> "casted_column", type |-> TargetType(arg)[1]],
                   [i \in 1..Len(column) |-> cast_cell(column[i], TargetType(arg)[1])])]
    [] op = "take" ->
         IF \E k \in 1..Len(arg) : arg[k] >= Len(column)
           THEN [ok |-> FALSE, msg |-> Msg("Take operation failed: {}", <<>>)]
           ELSE [ok |-> TRUE,
                 batch |-> column_batch(field, [k \in 1..Len(arg) |-> column[arg[k] + 1]])]
    [] op = "compute_filter" ->
         IF Len(arg) > Len(column)
           THEN [ok |-> FALSE, msg |-> Msg("Filter operation failed: {}", <<>>)]
           ELSE LET keep == mask_rows(arg, 1) IN
                [ok |-> TRUE,
                 batch |-> column_batch(field, [k \in 1..Len(keep) |-> column[keep[k] + 1]])]
    [] op = "sort" ->
         [ok |-> TRUE, batch |-> column_batch(field, sort_cells(column, arg))]

\* cast / take / filter / sort: the closure up to its inner with_table_registry
ComputeBody(op, h, ci, arg) ==
  IF get(objects, h) = <<>>
    THEN /\ Return(Err(op, h, Msg("Table not found", <<>>)))
         /\ UNCHANGED <<next_id, objects, issued, removed>>
    ELSE LET batch == get(objects, h)[1] IN
         IF ci >= num_columns(batch)
           THEN /\ Return([Err(op, h, Msg("Column index out of bounds", <<>>))
                              EXCEPT !.live = TRUE])
                /\ UNCHANGED <<next_id, objects, issued, removed>>
           ELSE LET k == Kernel(op, arg, batch.fields[ci + 1], batch.columns[ci + 1]) IN
                IF k.ok
                  THEN ToNestedInsert(op, h, k.batch, 0, 0, num_rows(batch))
                  ELSE /\ Return([Err(op, h, k.msg) EXCEPT !.live = TRUE])
                       /\ UNCHANGED <<next_id, objects, issued, removed>>

Compute(op, h, ci, arg) ==
  /\ UNCHANGED <<memVars, buildVars, auxVars>>
  /\ call.phase = "idle"
  /\ IF CanLock THEN ComputeBody(op, h, ci, arg) ELSE EntryFails(op, h)

Cast(h, ci, type_id)      == Compute("cast", h, ci, type_id)
Take(h, ci, indices)      == Compute("take", h, ci, indices)
ComputeFilter(h, ci, mask) == Compute("compute_filter", h, ci, mask)
Sort(h, ci, descending)   == Compute("sort", h, ci, descending)

\* ================================================================= mem.rs
\* A record batch as far as mem.rs looks at it: its schema and row count.
MemSchemas == {"A", "B"}
MemBatch(schema, rows) == [schema |-> schema, num_rows |-> rows]

\* the batch lists handed to create_table_from_batches
BatchLists ==
  { <<>>, <<MemBatch("A", MaxRows)>>, <<MemBatch("A", MaxRows), MemBatch("A", 0)>>,
    <<MemBatch("B", 1)>>, <<MemBatch("A", 1), MemBatch("B", 1)>> }

\* ManagedTable::new
ManagedTable(schema, batches) == [schema |-> schema, batches |-> batches]

MemNoResult == [op |-> "none", kind |-> "none", handle |-> 0, input |-> 0,
                err |-> "", err_handle |-> 0, value |-> 0, live |-> FALSE,
                stats |-> [active_tables |-> 0, total_rows |-> 0, total_batches |-> 0]]
\* live: the handle the call was given was registered when it was called
MemOk(op, h)       == [MemNoResult EXCEPT !.op = op, !.kind = "ok", !.input = h,
                                          !.live = h \in DOMAIN tables]
MemErr(op, h, e)   == [MemNoResult EXCEPT !.op = op, !.kind = "err", !.input = h,
                                          !.err = e, !.live = h \in DOMAIN tables]
MemPanicked(op, h) == [MemNoResult EXCEPT !.op = op, !.kind = "panic", !.input = h,
                                          !.live = h \in DOMAIN tables]

\* CoreError::invalid_handle(handle)
invalid_handle(op, h) == [MemErr(op, h, "InvalidHandle") EXCEPT !.err_handle = h]

\* TableRegistry::get_table / get_table_mut: <<table>> or the error
get_table(tbls, handle) == IF handle \in DOMAIN tbls THEN <<tbls[handle]>> ELSE <<>>

\* TableRegistry::contains_handle
contains_handle(tbls, handle) == handle \in DOMAIN tbls

\* `self.next_handle += 1` on a u32: <<next>> or, where the addition
\* overflows in a build with overflow checks, <<>> (a panic)
next_handle_plus_one(nh, checks) ==
  IF nh + 1 > HandleMax
    THEN IF checks THEN <<>> ELSE <<(nh + 1) % HandleModulus>>
    ELSE <<nh + 1>>

\* TableRegistry::register_table past the addition
register_table(tbls, nh, table) == [handle |-> nh, tables |-> map_insert(tbls, nh, table)]

MemRoomFor(id) == id \in DOMAIN tables \/ Cardinality(DOMAIN tables) < MaxLive

\* TABLE_REGISTRY.lock() of mem.rs
MemCanLock == ~mem_lock_held /\ ~mem_poisoned

MemReturn(r) ==
  /\ mem_result' = r
  /\ UNCHANGED <<mem_lock_held, mem_poisoned, mem_hung>>

\* lock() on the mutex a trapped call left locked: it blocks ("hang", the
\* call never ends) or panics
MemLockNeverReturns(op, h) ==
  /\ \/ mem_hung' = TRUE /\ mem_result' = [MemPanicked(op, h) EXCEPT !.kind = "hang"]
     \/ mem_hung' = FALSE /\ mem_result' = MemPanicked(op, h)
  /\ UNCHANGED <<tables, next_handle, mem_lock_held, mem_poisoned, mem_issued, mem_removed>>

\* the functions that map a failed lock() to CoreError::memory
MemLockFails(op, h) ==
  IF mem_lock_held
    THEN MemLockNeverReturns(op, h)
    ELSE /\ MemReturn(MemErr(op, h, "Memory"))
         /\ UNCHANGED <<tables, next_handle, mem_issued, mem_removed>>

\* a validation that looks at the first batch only
first_batch_differs(schema, batches) ==
  Len(batches) > 0 /\ batches[1].schema # schema

\* the validation loop: some batch's schema differs from the table's
some_batch_differs(schema, batches) ==
  \E i \in 1..Len(batches) : batches[i].schema # schema

\* create_table_from_batches past its signature: the validation loop, the
\* lock and register_table
register_batches(schema, batches) ==
  /\ ~mem_hung
  /\ IF some_batch_differs(schema, batches)
       THEN /\ MemReturn(MemErr("create", 0, "Schema"))
            /\ UNCHANGED <<tables, next_handle, mem_issued, mem_removed>>
     ELSE IF ~MemCanLock THEN MemLockFails("create", 0)
     ELSE LET nh == next_handle_plus_one(next_handle, overflow_checks) IN
          IF nh = <<>>
            THEN \* the panic leaves register_table with the guard alive
                 /\ mem_result' = MemPanicked("create", 0)
                 /\ IF panic_unwind
                      THEN mem_lock_held' = FALSE /\ mem_poisoned' = TRUE
                      ELSE mem_lock_held' = TRUE /\ UNCHANGED mem_poisoned
                 /\ UNCHANGED <<tables, next_handle, mem_hung, mem_issued, mem_removed>>
            ELSE LET r == register_table(tables, next_handle,
                                         ManagedTable(schema, batches)) IN
                 /\ MemRoomFor(r.handle)
                 /\ tables' = r.tables
                 /\ next_handle' = nh[1]
                 /\ mem_issued' = mem_issued \cup {r.handle}
                 /\ MemReturn([MemOk("create", 0) EXCEPT !.handle = r.handle])
                 /\ UNCHANGED mem_removed

\* create_table_from_batches (create_table_with_metadata differs in the
\* metadata only), called by the host
create_table_from_batches(schema, batches) ==
  /\ UNCHANGED <<coreVars, buildVars, auxVars>>
  /\ register_batches(schema, batches)

\* mem::get_table
mem_get_table(handle) ==
  /\ UNCHANGED <<coreVars, buildVars, auxVars>>
  /\ ~mem_hung
  /\ IF ~MemCanLock THEN MemLockFails("get_table", handle)
     ELSE /\ MemReturn(IF get_table(tables, handle) = <<>>
                         THEN invalid_handle("get_table", handle)
                         ELSE MemOk("get_table", handle))
          /\ UNCHANGED <<tables, next_handle, mem_issued, mem_removed>>

\* mem::free_table
free_table(handle) ==
  /\ UNCHANGED <<coreVars, buildVars, auxVars>>
  /\ ~mem_hung
  /\ IF ~MemCanLock THEN MemLockFails("free_table", handle)
     ELSE IF get_table(tables, handle) = <<>>
       THEN /\ MemReturn(invalid_handle("free_table", handle))
            /\ UNCHANGED <<tables, next_handle, mem_issued, mem_removed>>
       ELSE /\ tables' = map_remove(tables, handle)
            /\ mem_removed' = mem_removed \cup {handle}
            /\ MemReturn(MemOk("free_table", handle))
            /\ UNCHANGED <<next_handle, mem_issued>>

\* mem::is_valid_handle: false when the lock fails
is_valid_handle(handle) ==
  /\ UNCHANGED <<coreVars, buildVars, auxVars>>
  /\ ~mem_hung
  /\ IF mem_lock_held THEN MemLockNeverReturns("is_valid_handle", handle)
     ELSE /\ MemReturn([MemOk("is_valid_handle", handle) EXCEPT
                          !.value = IF ~mem_poisoned /\ contains_handle(tables, handle)
                                      THEN 1 ELSE 0])
          /\ UNCHANGED <<tables, next_handle, mem_issued, mem_removed>>

\* mem::clear_all_tables: nothing when the lock fails
clear_all_tables ==
  /\ UNCHANGED <<coreVars, buildVars, auxVars>>
  /\ ~mem_hung
  /\ IF mem_lock_held THEN MemLockNeverReturns("clear_all_tables", 0)
     ELSE /\ tables' = IF mem_poisoned THEN tables ELSE << >>
          /\ mem_removed' = IF mem_poisoned THEN mem_removed
                             ELSE mem_removed \cup DOMAIN tables
          /\ MemReturn(MemOk("clear_all_tables", 0))
          /\ UNCHANGED <<next_handle, mem_issued>>

\* ------------------------------------------------ column.rs: ArrayBuilder
MaxBuilderLen == 2       \* most cells appended to the builder
MaxBuilt      == 1       \* most columns finished by the builder
MaxValues     == 2       \* most elements of an appendValues argument

\* Values of the host.  A number is kept as twice its value (num2), so that
\* 1.5 is a value; a string is kept as a code.
JsNull == [kind |-> "null", num2 |-> 0]
JsUndefined == [kind |-> "undefined", num2 |-> 0]
JsNumber(n2) == [kind |-> "number", num2 |-> n2]
JsString(code) == [kind |-> "string", num2 |-> code]
JsBool(b) == [kind |-> "boolean", num2 |-> IF b THEN 1 ELSE 0]
JsValues == {JsNull, JsUndefined, JsNumber(2), JsNumber(3), JsString(11), JsBool(TRUE)}

\* `f as i32` / `f as i64`: truncation toward zero
as_int(n2) == IF n2 >= 0 THEN n2 \div 2 ELSE -((-n2) \div 2)

BuilderTypeIds == 0 .. 6

\* ArrayBuilder::append on the cells of a builder of type type_id: the cells
\* it leaves and whether it returned an error.  Int cells hold the integer,
\* float cells twice the float, Boolean cells 0 / 1, Utf8 cells the code.
append(cells, type_id, value) ==
  LET absent == value.kind \in {"null", "undefined"}
      ok(cell) == [cells |-> Append(cells, cell), err |-> NoMsg]
      fail(m) == [cells |-> cells, err |-> Msg(m, <<>>)]
  IN CASE type_id = 0 -> ok(Null)
       [] type_id = 1 ->
            IF absent THEN ok(Null)
            ELSE ok(Val(IF value.kind = "boolean" THEN value.num2 ELSE 0))
       [] type_id \in {2, 3} ->
            IF absent THEN ok(Null)
            ELSE IF value.kind = "number" THEN ok(Val(as_int(value.num2)))
            ELSE fail("Value cannot be converted to number")
       [] type_id \in {4, 5} ->
            IF absent THEN ok(Null)
            ELSE IF value.kind = "number" THEN ok(Val(value.num2))
            ELSE fail("Value cannot be converted to number")
       [] type_id = 6 ->
            IF absent THEN ok(Null)
            ELSE IF value.kind = "string" THEN ok(Val(value.num2))
            ELSE fail("Value cannot be converted to string")

\* the loop of ArrayBuilder::append_values from element i on: `append(value)?`
RECURSIVE append_from(_, _, _, _)
append_from(cells, type_id, values, i) ==
  IF i > Len(values) THEN [cells |-> cells, err |-> NoMsg]
  ELSE LET r == append(cells, type_id, values[i]) IN
       IF r.err # NoMsg THEN r
       ELSE append_from(r.cells, type_id, values, i + 1)

ValueLists == UNION {[1..n -> JsValues] : n \in 0..MaxValues}

NoBuilder == [exists |-> FALSE, type_id |-> 0, cells |-> <<>>]
BuilderNoResult == [op |-> "none", kind |-> "none", msg |-> NoMsg, handle |-> 0]
BuilderOk(op) == [BuilderNoResult EXCEPT !.op = op, !.kind = "ok"]
BuilderErr(op, m) == [BuilderNoResult EXCEPT !.op = op, !.kind = "err", !.msg = m]

ArrowTypeName(type_id) ==
  CASE type_id = 0 -> "Null" [] type_id = 1 -> "Boolean" [] type_id = 2 -> "Int32"
    [] type_id = 3 -> "Int64" [] type_id = 4 -> "Float32" [] type_id = 5 -> "Float64"
    [] type_id = 6 -> "Utf8"

\* ArrayBuilder::new / create_builder
NewBuilder(type_id) ==
  /\ UNCHANGED <<coreVars, memVars, buildVars, view_calls, lateVars>>
  /\ builder' = [exists |-> TRUE, type_id |-> type_id, cells |-> <<>>]
  /\ builder_result' = [BuilderNoResult EXCEPT !.op = "new", !.kind = "ok"]

\* ArrayBuilder::append
BuilderAppend(value) ==
  /\ UNCHANGED <<coreVars, memVars, buildVars, view_calls, lateVars>>
  /\ builder.exists
  /\ Len(builder.cells) < MaxBuilderLen
  /\ LET r == append(builder.cells, builder.type_id, value) IN
     /\ builder' = [builder EXCEPT !.cells = r.cells]
     /\ builder_result' = IF r.err = NoMsg THEN BuilderOk("append")
                          ELSE BuilderErr("append", r.err)

\* ArrayBuilder::append_null
BuilderAppendNull ==
  /\ UNCHANGED <<coreVars, memVars, buildVars, view_calls, lateVars>>
  /\ builder.exists
  /\ Len(builder.cells) < MaxBuilderLen
  /\ builder' = [builder EXCEPT !.cells = Append(builder.cells, Null)]
  /\ builder_result' = BuilderOk("append_null")

\* ArrayBuilder::append_values
BuilderAppendValues(values) ==
  /\ UNCHANGED <<coreVars, memVars, buildVars, view_calls, lateVars>>
  /\ builder.exists
  /\ Len(builder.cells) + Len(values) <= MaxBuilderLen
  /\ LET r == append_from(builder.cells, builder.type_id, values, 1) IN
     /\ builder' = [builder EXCEPT !.cells = r.cells]
     /\ builder_result' = IF r.err = NoMsg THEN BuilderOk("append_values")
                          ELSE BuilderErr("append_values", r.err)

\* ArrayBuilder::clear
BuilderClear ==
  /\ UNCHANGED <<coreVars, memVars, buildVars, view_calls, lateVars>>
  /\ builder.exists
  /\ builder' = [builder EXCEPT !.cells = <<>>]
  /\ builder_result' = BuilderOk("clear")

\* the array ArrayBuilder::finish builds: the Null arm finishes a fresh
\* NullBuilder, every other arm takes the cells out of the builder
finished_cells(b) == IF b.type_id = 0 THEN <<>> ELSE b.cells
cells_after_finish(b) == IF b.type_id = 0 THEN b.cells ELSE <<>>

\* ArrayBuilder::finish
BuilderFinish ==
  /\ UNCHANGED <<memVars, buildVars, view_calls, lateVars>>
  /\ builder.exists
  /\ call.phase = "idle"
  /\ LET batch == [fields  |-> << [name |-> "built_column",
                                    type |-> ArrowTypeName(builder.type_id)] >>,
                   columns |-> << finished_cells(builder) >>]
     IN
     /\ builder' = [builder EXCEPT !.cells = cells_after_finish(builder)]
     /\ IF CanLock
          THEN LET r == insert(objects, next_id, batch) IN
               /\ Cardinality(DOMAIN objects) < MaxBuilt
               /\ next_id' = r.next_id
               /\ objects' = r.objects
               /\ issued' = issued \cup {r.id}
               /\ Return(Ok("finish", 0, r.id))
               /\ builder_result' = [BuilderOk("finish") EXCEPT !.handle = r.id]
               /\ UNCHANGED removed
          ELSE /\ EntryFails("finish", 0)
               /\ builder_result' = [BuilderNoResult EXCEPT !.op = "finish", !.kind = "panic"]

\* ------------------------------------- column.rs / table.rs: accessors
MaxViewCalls == 1        \* most accessor calls observed in one behaviour

ViewResult(op, h, ret, inside, cell, type) ==
  [op |-> op, handle |-> h, ret |-> ret, failed |-> FALSE,
   resolved |-> get(objects, h) # <<>>, inside |-> inside, cell |-> cell,
   type |-> type, disposed |-> h \in removed]

RowIndexes == 0 .. MaxRows
ColumnNames == {"id", "name", "big", "zip"}

\* the typed value Column::get hands out for a non-null cell
column_get_value(type, cell) ==
  IF type \in {"Int32", "Float64", "Utf8", "Boolean", "Int8", "Int16",
               "UInt8", "UInt16", "UInt32", "Float32"}
    THEN RetValue(type, cell.value)
    ELSE RetText(Msg("Unsupported data type: {:?}", <<type>>))

\* the typed value Row::get_at hands out for a non-null cell
row_get_value(type, cell) ==
  IF type \in {"Int32", "Float64", "Utf8", "Boolean"}
    THEN RetValue(type, cell.value)
    ELSE RetText(Msg("Unsupported type: {:?}", <<type>>))

\* An accessor that only reads: with_table_registry(|registry| ..) around
\* a closure that computes `view`.
ReadOnly(op, h, view) ==
  /\ UNCHANGED <<memVars, buildVars, builderVars, lateVars>>
  /\ call.phase = "idle"
  /\ view_calls < MaxViewCalls
  /\ view_calls' = view_calls + 1
  /\ IF CanLock
       THEN /\ Return([Ok(op, h, 0) EXCEPT !.view = view])
            /\ UNCHANGED <<next_id, objects, issued, removed>>
       ELSE EntryFails(op, h)

\* the position (column ci, row) of the table under h, if it is inside the data
Inside(h, ci, row) ==
  /\ get(objects, h) # <<>>
  /\ ci < num_columns(get(objects, h)[1])
  /\ row < num_rows(get(objects, h)[1])

CellAt(h, ci, row) == get(objects, h)[1].columns[ci + 1][row + 1]
TypeAt(h, ci) == get(objects, h)[1].fields[ci + 1].type

\* Column::get (Column::get_value is an alias)
ColumnGet(h, ci, index) ==
  ReadOnly("column_get", h,
    IF get(objects, h) = <<>> THEN ViewResult("column_get", h, RetUndefined, FALSE, Null, "")
    ELSE IF ci >= num_columns(get(objects, h)[1])
      THEN ViewResult("column_get", h, RetUndefined, FALSE, Null, "")
    ELSE IF index >= Len(get(objects, h)[1].columns[ci + 1])
      THEN ViewResult("column_get", h, RetUndefined, FALSE, Null, TypeAt(h, ci))
    ELSE IF CellAt(h, ci, index).is_null
      THEN ViewResult("column_get", h, RetNull, TRUE, CellAt(h, ci, index), TypeAt(h, ci))
    ELSE ViewResult("column_get", h, column_get_value(TypeAt(h, ci), CellAt(h, ci, index)),
                    TRUE, CellAt(h, ci, index), TypeAt(h, ci)))

\* Row::get_at
RowGetAt(h, row, index) ==
  ReadOnly("row_get_at", h,
    IF get(objects, h) = <<>> THEN ViewResult("row_get_at", h, RetUndefined, FALSE, Null, "")
    ELSE IF ~(index < num_columns(get(objects, h)[1]) /\ row < num_rows(get(objects, h)[1]))
      THEN ViewResult("row_get_at", h, RetUndefined, FALSE, Null, "")
    ELSE IF CellAt(h, index, row).is_null
      THEN ViewResult("row_get_at", h, RetNull, TRUE, CellAt(h, index, row), TypeAt(h, index))
    ELSE ViewResult("row_get_at", h, row_get_value(TypeAt(h, index), CellAt(h, index, row)),
                    TRUE, CellAt(h, index, row), TypeAt(h, index)))

\* Row::get: for a column the schema has it calls self.get_at from inside
\* the closure, which locks TABLE_REGISTRY again
RowGet(h, row, name) ==
  IF CanLock /\ get(objects, h) # <<>> /\ name \in FieldNames(get(objects, h)[1])
    THEN LET ci == index_of(get(objects, h)[1], name) - 1
             inside == Inside(h, ci, row)
             view == [ViewResult("row_get", h, RetUndefined, inside,
                                 IF inside THEN CellAt(h, ci, row) ELSE Null, TypeAt(h, ci))
                        EXCEPT !.failed = TRUE]
         IN /\ UNCHANGED <<memVars, buildVars, builderVars, lateVars>>
            /\ call.phase = "idle"
            /\ view_calls < MaxViewCalls
            /\ view_calls' = view_calls + 1
            /\ \/ /\ call' = [Idle EXCEPT !.op = "row_get", !.handle = h,
                                          !.phase = "deadlocked"]
                  /\ result' = NoResult
                  /\ lock_held' = TRUE
                  /\ UNCHANGED <<next_id, objects, poisoned, issued, removed>>
               \/ PanicWith([Panicked("row_get", h) EXCEPT !.view = view], TRUE)
    ELSE ReadOnly("row_get", h, ViewResult("row_get", h, RetNull, FALSE, Null, ""))

\* Column::name
ColumnName(h, ci) ==
  ReadOnly("column_name", h,
    ViewResult("column_name", h,
      IF get(objects, h) # <<>> /\ ci < num_columns(get(objects, h)[1])
        THEN RetText(Msg(get(objects, h)[1].fields[ci + 1].name, <<>>))
        ELSE RetText(Msg("unknown", <<>>)),
      FALSE, Null, ""))

\* Column::length
ColumnLength(h, ci) ==
  ReadOnly("column_length", h,
    ViewResult("column_length", h,
      IF get(objects, h) # <<>> /\ ci < num_columns(get(objects, h)[1])
        THEN RetNumber(Len(get(objects, h)[1].columns[ci + 1]))
        ELSE RetNumber(0),
      FALSE, Null, ""))

\* Column::null_count
ColumnNullCount(h, ci) ==
  ReadOnly("column_null_count", h,
    ViewResult("column_null_count", h,
      IF get(objects, h) # <<>> /\ ci < num_columns(get(objects, h)[1])
        THEN LET col == get(objects, h)[1].columns[ci + 1] IN
             RetNumber(Cardinality({i \in 1..Len(col) : col[i].is_null}))
        ELSE RetNumber(0),
      FALSE, Null, ""))

\* Column::is_null
ColumnIsNull(h, ci, index) ==
  ReadOnly("column_is_null", h,
    ViewResult("column_is_null", h,
      IF get(objects, h) # <<>> /\ ci < num_columns(get(objects, h)[1])
        THEN RetBool(Inside(h, ci, index) /\ CellAt(h, ci, index).is_null)
        ELSE RetBool(FALSE),
      Inside(h, ci, index),
      IF Inside(h, ci, index) THEN CellAt(h, ci, index) ELSE Null, ""))

\* the names of the schema's fields, in order
available_columns(batch) == [i \in 1..Len(batch.fields) |-> batch.fields[i].name]

\* Table::get_column: the Column (h, index) or an error
GetColumn(h, name) ==
  ReadOnly("get_column", h,
    ViewResult("get_column", h,
      IF get(objects, h) = <<>>
        THEN RetText(Msg("Table has been disposed or is invalid", <<>>))
      ELSE IF name \in FieldNames(get(objects, h)[1])
        THEN RetValue("Column", index_of(get(objects, h)[1], name) - 1)
      ELSE RetText(Msg("Column '{}' not found. Available columns: [{}]",
                       <<name, available_columns(get(objects, h)[1])>>)),
      FALSE, Null, ""))

\* ================================================================== fs.rs
\* A buffer is a sequence of bytes, each a number in 0 .. 255.

\* longest run of padding bytes in a modelled buffer
MaxPad == 60

PAR1 == <<80, 65, 82, 49>>
ARROW1 == <<65, 82, 82, 79, 87, 49, 0, 0>>
FEA1 == <<70, 69, 65, 49>>
CONTINUATION == <<255, 255, 255, 255>>

starts_with(data, prefix) ==
  /\ Len(data) >= Len(prefix)
  /\ SubSeq(data, 1, Len(prefix)) = prefix

ends_with(data, suffix) ==
  /\ Len(data) >= Len(suffix)
  /\ SubSeq(data, Len(data) - Len(suffix) + 1, Len(data)) = suffix

\* u32::from_le_bytes of the four bytes that start at 0-based `offset`.
\* A value with its top bit set is held as the largest number the checker
\* represents: the source only compares the value with 0, with buffer
\* lengths and with caps, all of them below 2^31.
from_le_bytes(data, offset) ==
  IF data[offset + 4] >= 128
    THEN 2147483647
    ELSE data[offset + 1] + 256 * data[offset + 2] + 65536 * data[offset + 3]
         + 16777216 * data[offset + 4]

is_ascii(b) == b < 128
is_ascii_graphic(b) == b >= 33 /\ b <= 126
is_ascii_whitespace(b) == b \in {9, 10, 12, 13, 32}
contains(sample, b) == \E i \in 1 .. Len(sample) : sample[i] = b

FormatOk(format) == [kind |-> "ok", format |-> format, msg |-> ""]
FormatErr(m) == [kind |-> "err", format |-> "none", msg |-> m]
\* the check at hand returned nothing: detect_format goes on to the next
NoMatch == [kind |-> "none", format |-> "none", msg |-> ""]
NotDetected == [kind |-> "idle", format |-> "none", msg |-> ""]

\* the mutated Parquet check: a footer length that fails the sanity check
\* lets the buffer through to the later checks
parquet_check_strict(data) ==
  IF Len(data) >= 4 /\ ends_with(data, PAR1)
    THEN IF /\ Len(data) >= 8
            /\ from_le_bytes(data, Len(data) - 8) > 0
            /\ from_le_bytes(data, Len(data) - 8) < Len(data) \div 2
           THEN FormatOk("Parquet")
           ELSE NoMatch
    ELSE NoMatch

\* "Check Parquet magic first"
parquet_check(data) ==
  IF Len(data) >= 4 /\ ends_with(data, PAR1)
    THEN IF /\ Len(data) >= 8
            /\ from_le_bytes(data, Len(data) - 8) > 0
            /\ from_le_bytes(data, Len(data) - 8) < Len(data) \div 2
           THEN FormatOk("Parquet")
           ELSE FormatOk("Parquet")
    ELSE NoMatch

\* the mutated Arrow check: the file magic counts only with a schema size
\* that passes its validation
arrow_check_strict(data) ==
  IF Len(data) >= 8
    THEN IF starts_with(data, ARROW1)
           THEN IF /\ Len(data) >= 12
                   /\ from_le_bytes(data, 8) > 0
                   /\ from_le_bytes(data, 8) < Len(data)
                  THEN FormatOk("ArrowIpc")
                  ELSE NoMatch
         ELSE IF /\ SubSeq(data, 1, 4) = CONTINUATION
                 /\ from_le_bytes(data, 4) > 0
                 /\ from_le_bytes(data, 4) < Len(data)
                 /\ from_le_bytes(data, 4) < 100000000
           THEN FormatOk("ArrowStream")
         ELSE NoMatch
    ELSE NoMatch

\* "Check if we have enough data for Arrow magic checks"
arrow_check(data) ==
  IF Len(data) >= 8
    THEN IF starts_with(data, ARROW1)
           THEN IF /\ Len(data) >= 12
                   /\ from_le_bytes(data, 8) > 0
                   /\ from_le_bytes(data, 8) < Len(data)
                  THEN FormatOk("ArrowIpc")
                  ELSE FormatOk("ArrowIpc")
         ELSE IF /\ SubSeq(data, 1, 4) = CONTINUATION
                 /\ from_le_bytes(data, 4) > 0
                 /\ from_le_bytes(data, 4) < Len(data)
                 /\ from_le_bytes(data, 4) < 100000000
           THEN FormatOk("ArrowStream")
         ELSE NoMatch
    ELSE NoMatch

\* "Enhanced Feather format detection"
feather_check(data) ==
  IF Len(data) >= 10
    THEN IF starts_with(data, FEA1) THEN FormatOk("Feather")
         ELSE IF starts_with(data, ARROW1) THEN FormatOk("Feather")
         ELSE NoMatch
    ELSE NoMatch

\* "Check for other common file format magic numbers"
foreign_magic_check(data) ==
  IF Len(data) >= 4
    THEN LET m == SubSeq(data, 1, 4)
             m3 == SubSeq(data, 1, 3)
         IN CASE m = <<80, 75, 3, 4>> ->
                   FormatErr("Detected ZIP archive format - not supported")
              [] m3 = <<31, 139, 8>> ->
                   FormatErr("Detected GZIP format - not supported")
              [] m3 = <<66, 90, 104>> ->
                   FormatErr("Detected BZIP2 format - not supported")
              [] m = <<37, 80, 68, 70>> ->
                   FormatErr("Detected PDF format - not supported")
              [] m3 = <<255, 216, 255>> ->
                   FormatErr("Detected JPEG image format - not supported")
              [] m = <<137, 80, 78, 71>> ->
                   FormatErr("Detected PNG image format - not supported")
              [] data[1] = 123 ->
                   FormatErr("Detected JSON format - not supported")
              [] data[1] = 60 /\ (\/ starts_with(data, <<60, 63, 120, 109, 108>>)
                                  \/ starts_with(data, <<60, 104, 116, 109, 108>>)) ->
                   FormatErr("Detected XML/HTML format - not supported")
              [] OTHER -> NoMatch
    ELSE NoMatch

\* "Enhanced CSV detection"
csv_check(data) ==
  IF Len(data) >= 64
    THEN LET sample == SubSeq(data, 1, 64)
             has_comma == contains(sample, 44)
             has_tab == contains(sample, 9)
             has_newline == contains(sample, 10) \/ contains(sample, 13)
         IN IF /\ \A i \in 1 .. Len(sample) : is_ascii(sample[i])
               /\ (has_comma \/ has_tab) /\ has_newline
              THEN FormatErr(IF has_comma THEN "Detected CSV-like format - not supported"
                                          ELSE "Detected TSV-like format - not supported")
              ELSE NoMatch
    ELSE NoMatch

\* "check for potential Arrow data based on flatbuffer structure"
headerless_check(data) ==
  IF Len(data) >= 12
    THEN LET potential_length == from_le_bytes(data, 0)
         IN IF /\ potential_length > 0
               /\ potential_length < Len(data)
               /\ potential_length >= 8
               /\ potential_length < 10000000
               /\ Len(data) >= potential_length + 8
              THEN FormatOk("ArrowIpc")
              ELSE NoMatch
    ELSE NoMatch

\* "Binary format detection fallback"
binary_check(data) ==
  IF Len(data) >= 16
    THEN LET non_ascii_bytes ==
               Cardinality({i \in 1 .. 16 : /\ ~is_ascii_graphic(data[i])
                                             /\ ~is_ascii_whitespace(data[i])})
         IN IF non_ascii_bytes >= 8
              THEN FormatErr("Detected binary format that may be corrupted or unsupported")
              ELSE NoMatch
    ELSE NoMatch

\* "Final fallback with comprehensive error message"
fallback(data) ==
  IF \A i \in 1 .. Len(data) : i <= 32 => is_ascii(data[i])
    THEN FormatErr("Unable to detect supported file format: ASCII text")
    ELSE FormatErr("Unable to detect supported file format: Binary data of unknown format")

\* FileFormat::detect_format: the checks in the order of the source, the
\* first one that returns decides.
detect_format(data) ==
  IF Len(data) < 4 THEN FormatErr("Data too short to determine format")
  ELSE IF parquet_check(data) # NoMatch THEN parquet_check(data)
  ELSE IF arrow_check(data) # NoMatch THEN arrow_check(data)
  ELSE IF feather_check(data) # NoMatch THEN feather_check(data)
  ELSE IF foreign_magic_check(data) # NoMatch THEN foreign_magic_check(data)
  ELSE IF csv_check(data) # NoMatch THEN csv_check(data)
  ELSE IF headerless_check(data) # NoMatch THEN headerless_check(data)
  ELSE IF binary_check(data) # NoMatch THEN binary_check(data)
  ELSE fallback(data)

\* The buffers of the model: a head, a run of one padding byte, a tail.
Buffers ==
  LET Heads ==
        { <<>>, ARROW1, ARROW1 \o <<4, 0, 0, 0>>, ARROW1 \o <<0, 0, 0, 0>>,
          CONTINUATION, CONTINUATION \o <<4, 0, 0, 0>>, CONTINUATION \o <<16, 0, 0, 0>>,
          FEA1, <<80, 75, 3, 4>>, <<31, 139, 8>>, <<66, 90, 104>>, <<37, 80, 68, 70>>,
          <<255, 216, 255>>, <<137, 80, 78, 71>>, <<123>>, <<60, 63, 120, 109, 108>>,
          <<97, 44, 98, 10>>, <<97, 9, 98, 13>>, <<8, 0, 0, 0>>, <<65, 66, 67>> }
      PadBytes == {0, 65, 200}
      Tails == { <<>>, PAR1, <<1, 0, 0, 0>> \o PAR1, <<0, 0, 0, 0>> \o PAR1,
                 <<255, 255, 255, 255>> \o PAR1 }
      Pad(n, b) == [i \in 1 .. n |-> b]
  IN { h \o Pad(n, b) \o t : h \in Heads, n \in 0 .. MaxPad, b \in PadBytes, t \in Tails }

\* The host hands a buffer to detect_format (read_table_from_bytes does so
\* before anything else).
DetectFormat ==
  /\ detected = NotDetected
  /\ detected' = detect_format(buffer)
  /\ UNCHANGED <<buffer, ioVars, pluginVars, coreVars, memVars, buildVars, builderVars, view_calls>>

\* ============================================== ipc.rs and the fs.rs codecs
\* IpcWriteOptions are kept as the name of their compression; a codec that
\* the build lacks is one try_with_compression refuses.
CompressionTypes == {"None", "LZ4_FRAME", "ZSTD", "LZ4", "GZIP"}
CompressionConfigs ==
  [enabled : BOOLEAN, compression_type : CompressionTypes, preserve_dict_id : BOOLEAN]

IoNoResult == [op |-> "none", kind |-> "none", err |-> "", msg |-> "", names |-> <<>>,
               compression |-> "None", requested |-> "None", input |-> 0, handle |-> 0]
IoOptions(op, requested, compression) ==
  [IoNoResult EXCEPT !.op = op, !.kind = "ok", !.requested = requested,
                     !.compression = compression]
\* names: the algorithm names the message enumerates
IoErr(op, requested, err, m, names) ==
  [IoNoResult EXCEPT !.op = op, !.kind = "err", !.requested = requested, !.err = err,
                     !.msg = m, !.names = names]
NoBytes == [kind |-> "none"]

\* IpcWriteOptions::try_with_compression(Some(codec)).is_ok()
try_with_compression(codec) ==
  \/ codec = "LZ4_FRAME" /\ lz4_available
  \/ codec = "ZSTD" /\ zstd_available

is_lz4_supported == try_with_compression("LZ4_FRAME")

get_supported_compression_types ==
  <<"None">> \o (IF is_lz4_supported THEN <<"LZ4_FRAME">> ELSE <<>>)
             \o (IF try_with_compression("ZSTD") THEN <<"ZSTD">> ELSE <<>>)

\* default_lz4_ipc_options: "Fallback to no compression if LZ4 is not
\* available"
default_lz4_ipc_options ==
  IF try_with_compression("LZ4_FRAME") THEN "LZ4_FRAME" ELSE "None"

create_ipc_options(enable_lz4) ==
  IF enable_lz4 THEN default_lz4_ipc_options ELSE "None"

\* create_custom_ipc_options(compression, _, None); "None" is Option::None
create_custom_ipc_options(op, compression) ==
  IF compression # "None" /\ ~try_with_compression(compression)
    THEN IoErr(op, compression, "Ipc", "Failed to set compression: {}", <<>>)
    ELSE IoOptions(op, compression, compression)

\* CompressionConfig::to_ipc_options
to_ipc_options(config) ==
  IF ~config.enabled
    THEN IoOptions("to_ipc_options", config.compression_type, "None")
  ELSE IF config.compression_type \in {"LZ4_FRAME", "ZSTD", "None"}
    THEN create_custom_ipc_options("to_ipc_options", config.compression_type)
  ELSE IoErr("to_ipc_options", config.compression_type, "Validation",
             "Unsupported compression type: {}", <<>>)

\* The host converts a CompressionConfig.
ToIpcOptions(config) ==
  /\ io_result' = to_ipc_options(config)
  /\ UNCHANGED <<lz4_available, zstd_available, encoded, fsVars, pluginVars,
                 coreVars, memVars, buildVars, builderVars, view_calls>>

\* The host asks for options with or without LZ4.
CreateIpcOptions(enable_lz4) ==
  /\ io_result' = IoOptions("create_ipc_options",
                            IF enable_lz4 THEN "LZ4_FRAME" ELSE "None",
                            create_ipc_options(enable_lz4))
  /\ UNCHANGED <<lz4_available, zstd_available, encoded, fsVars, pluginVars,
                 coreVars, memVars, buildVars, builderVars, view_calls>>

\* The host lists the codecs of the build.
GetSupportedCompressionTypes ==
  /\ io_result' = [IoOptions("get_supported_compression_types", "None", "None")
                     EXCEPT !.names = get_supported_compression_types]
  /\ UNCHANGED <<lz4_available, zstd_available, encoded, fsVars, pluginVars,
                 coreVars, memVars, buildVars, builderVars, view_calls>>

\* ManagedTable::num_rows / num_columns / num_batches
table_num_rows(table) ==
  LET RECURSIVE sum(_)
      sum(i) == IF i = 0 THEN 0 ELSE table.batches[i].num_rows + sum(i - 1)
  IN sum(Len(table.batches))
table_num_columns(table) == IF table.schema = "A" THEN 2 ELSE 1
table_num_batches(table) == Len(table.batches)

\* The bytes of the encapsulated messages an IPC writer emits: the schema
\* message, then one message per batch, each behind the continuation marker
\* and its little-endian length.
ipc_messages(table) ==
  LET RECURSIVE msgs(_)
      msgs(i) == IF i = 0
                   THEN CONTINUATION \o <<16, 0, 0, 0>> \o [k \in 1 .. 16 |-> 1]
                   ELSE msgs(i - 1) \o CONTINUATION \o <<8, 0, 0, 0>>
                        \o [k \in 1 .. 8 |-> table.batches[i].num_rows]
  IN msgs(Len(table.batches))

\* What a writer returns: the table it encoded and the framing bytes
\* detect_format looks at.
\* FileWriter: magic, messages, footer, footer length, "ARROW1"
ipc_file_bytes(h, table, compression) ==
  [kind |-> "bytes", format |-> "ipc_file", compression |-> compression,
   source |-> h, table |-> table,
   bytes |-> ARROW1 \o ipc_messages(table) \o [k \in 1 .. 8 |-> 5] \o <<8, 0, 0, 0>>
             \o <<65, 82, 82, 79, 87, 49>>]
\* StreamWriter: messages, end-of-stream marker
ipc_stream_bytes(h, table, compression) ==
  [kind |-> "bytes", format |-> "ipc_stream", compression |-> compression,
   source |-> h, table |-> table,
   bytes |-> ipc_messages(table) \o CONTINUATION \o <<0, 0, 0, 0>>]
\* ArrowWriter of parquet: magic, the rows of all batches in row groups,
\* file metadata, its length, magic
parquet_bytes(h, table) ==
  [kind |-> "bytes", format |-> "parquet", compression |-> "None",
   source |-> h, table |-> table,
   bytes |-> PAR1 \o [k \in 1 .. table_num_rows(table) |-> 7] \o [k \in 1 .. 12 |-> 3]
             \o <<12, 0, 0, 0>> \o PAR1]

\* the outcome of a call that ended in mem.rs
IoFromMem(op, h, r) ==
  [IoNoResult EXCEPT !.op = op, !.kind = r.kind, !.err = r.err, !.input = h,
                     !.handle = r.handle]

\* A writer: get_table(handle)?, then the encoding of the clone.
Write(op, h, bytes) ==
  /\ ~mem_hung
  /\ UNCHANGED <<lz4_available, zstd_available, fsVars, pluginVars,
                 coreVars, buildVars, builderVars, view_calls>>
  /\ IF ~MemCanLock
       THEN /\ MemLockFails("get_table", h)
            /\ io_result' = IoFromMem(op, h, mem_result')
            /\ UNCHANGED encoded
     ELSE IF get_table(tables, h) = <<>>
       THEN /\ io_result' = IoFromMem(op, h, invalid_handle("get_table", h))
            /\ UNCHANGED <<encoded, memVars>>
       ELSE /\ encoded' = bytes
            /\ io_result' = [IoNoResult EXCEPT !.op = op, !.kind = "ok", !.input = h,
                                               !.compression = bytes.compression]
            /\ UNCHANGED memVars

Writers == {"write_table_to_ipc_bytes", "write_table_to_ipc_stream",
            "write_table_to_feather", "write_table_to_parquet"}

\* the writers of fs.rs; write_table_to_ipc_bytes ignores its options
WriteTable(writer, h) ==
  LET table == IF h \in DOMAIN tables THEN tables[h] ELSE ManagedTable("A", <<>>) IN
  Write(writer, h,
        CASE writer = "write_table_to_ipc_stream" -> ipc_stream_bytes(h, table, "None")
          [] writer = "write_table_to_parquet" -> parquet_bytes(h, table)
          [] OTHER -> ipc_file_bytes(h, table, "None"))

\* ipc::write_table_with_compression
WriteTableWithCompression(h, enable_lz4) ==
  LET table == IF h \in DOMAIN tables THEN tables[h] ELSE ManagedTable("A", <<>>) IN
  Write("write_table_with_compression", h,
        ipc_file_bytes(h, table, create_ipc_options(enable_lz4)))

\* ParquetRecordBatchReader with the default batch size of 1024 rows: the
\* rows of the file in batches of that size, none for a file without rows
parquet_batches(table) ==
  LET total == table_num_rows(table) IN
  [i \in 1 .. ((total + 1023) \div 1024) |->
     MemBatch(table.schema, IF i * 1024 <= total THEN 1024 ELSE total - (i - 1) * 1024)]

\* read_table_from_bytes on the bytes of the last writer call
ReadTableFromBytes ==
  /\ encoded # NoBytes
  /\ UNCHANGED <<lz4_available, zstd_available, encoded, fsVars, pluginVars,
                 coreVars, buildVars, builderVars, view_calls>>
  /\ LET format == detect_format(encoded.bytes)
         h == encoded.source
         table == encoded.table
         Fails(err, m) == /\ io_result' = [IoErr("read_table_from_bytes", "None", err, m, <<>>)
                                             EXCEPT !.input = h]
                          /\ UNCHANGED memVars
         Registers(batches) ==
           /\ register_batches(table.schema, batches)
           /\ io_result' = IoFromMem("read_table_from_bytes", h, mem_result')
     IN IF format.kind = "err" THEN Fails("Validation", format.msg)
        ELSE IF format.format \in {"ArrowIpc", "Feather"}
          THEN IF encoded.format # "ipc_file"
                 THEN Fails("Ipc", "Failed to create IPC file reader: {}")
               ELSE IF encoded.compression # "None" /\ ~try_with_compression(encoded.compression)
                 THEN Fails("Ipc", "Failed to read record batch: {}")
               ELSE Registers(table.batches)
        ELSE IF format.format = "ArrowStream"
          THEN IF encoded.format # "ipc_stream"
                 THEN Fails("Ipc", "Failed to create IPC stream reader: {}")
               ELSE Registers(table.batches)
        ELSE IF encoded.format # "parquet"
          THEN Fails("Parquet", "Failed to create Parquet reader: {}")
        ELSE IF parquet_batches(table) = <<>>
          THEN Fails("Parquet", "Parquet file contains no data")
        ELSE Registers(parquet_batches(table))

\* ------------------------------------------------------ mem.rs statistics
\* the sum a loop over registry.tables.values() accumulates
sum_over_tables(counts) ==
  LET RECURSIVE sum(_)
      sum(hs) == IF hs = {} THEN 0
                 ELSE LET h == CHOOSE x \in hs : TRUE
                      IN counts[h] + sum(hs \ {h})
  IN sum(DOMAIN counts)

\* MemoryStats of a registry
memory_stats(tbls) ==
  [active_tables |-> Cardinality(DOMAIN tbls),
   total_rows |-> sum_over_tables([h \in DOMAIN tbls |-> table_num_rows(tbls[h])]),
   total_batches |-> sum_over_tables([h \in DOMAIN tbls |-> table_num_batches(tbls[h])])]

\* mem::get_table_count: 0 when the lock fails
get_table_count ==
  /\ UNCHANGED <<coreVars, buildVars, auxVars>>
  /\ ~mem_hung
  /\ IF mem_lock_held THEN MemLockNeverReturns("get_table_count", 0)
     ELSE /\ MemReturn([MemOk("get_table_count", 0) EXCEPT
                          !.value = IF mem_poisoned THEN 0
                                    ELSE Cardinality(DOMAIN tables)])
          /\ UNCHANGED <<tables, next_handle, mem_issued, mem_removed>>

\* mem::get_memory_stats
get_memory_stats ==
  /\ UNCHANGED <<coreVars, buildVars, auxVars>>
  /\ ~mem_hung
  /\ IF ~MemCanLock THEN MemLockFails("get_memory_stats", 0)
     ELSE /\ MemReturn([MemOk("get_memory_stats", 0) EXCEPT
                          !.stats = memory_stats(tables)])
          /\ UNCHANGED <<tables, next_handle, mem_issued, mem_removed>>

\* ================================================================ plugin.rs
\* A plugin id is kept as the parts plugin_id.split('.') yields: the empty
\* string is <<"">>, an id without '.' has one part.  The timestamp of the
\* metadata is not kept.
PluginIds ==
  { <<"">>, <<"invalid_plugin_id">>, <<"demo", "v1">>, <<"x", "demo", "v1">>,
    <<"io", "test", "plugin", "v1">>, <<"io", "arrow", "geometry", "v1">>,
    <<"io", "arrow", "plugin", "geo", "v1">>, <<"io", "arrow", "plugin", "dummy", "v1">>,
    <<"a", "b", "c", "d", "demo", "v1">> }

PluginNoResult == [op |-> "none", kind |-> "none", id |-> <<"">>, msg |-> "", count |-> 0]
PluginOk(op, id) == [PluginNoResult EXCEPT !.op = op, !.kind = "ok", !.id = id]
\* CoreError::plugin
PluginErr(op, id, m) == [PluginNoResult EXCEPT !.op = op, !.kind = "err", !.id = id, !.msg = m]

\* extract_plugin_type: <<type>> or <<>> for an id of another shape
extract_plugin_type(plugin_id) ==
  CASE Len(plugin_id) = 2 -> <<plugin_id[1]>>
    [] Len(plugin_id) = 3 -> <<plugin_id[2]>>
    [] Len(plugin_id) = 4 -> <<plugin_id[3]>>
    [] Len(plugin_id) = 5 -> <<plugin_id[4]>>
    [] OTHER -> <<>>

\* get_builtin_factories()[type].create_plugin(plugin_id): the plugin struct
create_plugin(plugin_type) ==
  CASE plugin_type \in {"geo", "geometry"} -> <<"GeometryPlugin">>
    [] plugin_type \in {"demo", "dummy"} -> <<"DummyPlugin">>
    [] OTHER -> <<>>

\* ArrowPlugin::plugin_id of the two plugin structs: a &'static str
plugin_id(plugin, given) ==
  IF plugin = "GeometryPlugin"
    THEN <<"io", "arrow", "plugin", "geo", "v1">>
    ELSE <<"io", "arrow", "plugin", "dummy", "v1">>

\* register_plugin: the format checks, the is_registered check, then
\* create_and_register_plugin and PluginRegistry::register
RegisterPlugin(given) ==
  /\ UNCHANGED <<coreVars, memVars, buildVars, builderVars, view_calls, fsVars, ioVars>>
  /\ LET Fails(m) == /\ plugin_result' = PluginErr("register_plugin", given, m)
                     /\ UNCHANGED <<plugins, metadata, registered_ids>>
         type == extract_plugin_type(given)
         plugin == create_plugin(type[1])
         id == plugin_id(plugin[1], given)
     IN IF given = <<"">> THEN Fails("Plugin ID cannot be empty")
        ELSE IF Len(given) = 1
          THEN Fails("Plugin ID should follow format 'domain.plugin.name.version'")
        ELSE IF given \in DOMAIN plugins THEN Fails("Plugin '{}' is already registered")
        ELSE IF type = <<>> THEN Fails("Invalid plugin ID format: '{}'")
        ELSE IF plugin = <<>> THEN Fails("Unknown plugin type '{}' in plugin ID '{}'")
        ELSE IF id \in DOMAIN plugins THEN Fails("Plugin already registered: {}")
        ELSE /\ metadata' = map_insert(metadata, id, [id |-> id, name |-> plugin[1]])
             /\ plugins' = map_insert(plugins, id, plugin[1])
             /\ registered_ids' = registered_ids \cup {given}
             /\ plugin_result' = PluginOk("register_plugin", given)

\* validate_plugin
ValidatePlugin(id) ==
  /\ UNCHANGED <<coreVars, memVars, buildVars, builderVars, view_calls, fsVars, ioVars>>
  /\ UNCHANGED <<plugins, metadata, registered_ids>>
  /\ plugin_result' = IF id \in DOMAIN plugins
                        THEN PluginOk("validate_plugin", id)
                        ELSE PluginErr("validate_plugin", id, "Plugin not found: {}")

\* get_plugin_metadata
GetPluginMetadata(id) ==
  /\ UNCHANGED <<coreVars, memVars, buildVars, builderVars, view_calls, fsVars, ioVars>>
  /\ UNCHANGED <<plugins, metadata, registered_ids>>
  /\ plugin_result' = IF id \in DOMAIN metadata
                        THEN PluginOk("get_plugin_metadata", id)
                        ELSE PluginErr("get_plugin_metadata", id, "Plugin not found: {}")

\* get_plugin_info: count is the length of the list returned
GetPluginInfo ==
  /\ UNCHANGED <<coreVars, memVars, buildVars, builderVars, view_calls, fsVars, ioVars>>
  /\ UNCHANGED <<plugins, metadata, registered_ids>>
  /\ plugin_result' = [PluginOk("get_plugin_info", <<"">>) EXCEPT
                         !.count = Cardinality(DOMAIN metadata)]

\* clear_all_plugins
ClearAllPlugins ==
  /\ UNCHANGED <<coreVars, memVars, buildVars, builderVars, view_calls, fsVars, ioVars>>
  /\ plugins' = << >>
  /\ metadata' = << >>
  /\ registered_ids' = {}
  /\ plugin_result' = PluginOk("clear_all_plugins", <<"">>)

\* ------------------------------------------------- the core specification
InitBuild ==
  /\ overflow_checks \in BOOLEAN
  /\ panic_unwind \in BOOLEAN

InitCoreVars ==
  /\ next_id = 1
  /\ objects = << >>
  /\ lock_held = FALSE
  /\ poisoned = FALSE
  /\ call = Idle
  /\ result = NoResult
  /\ issued = {}
  /\ removed = {}

InitMemVars ==
  /\ tables = << >>
  /\ next_handle = 1
  /\ mem_lock_held = FALSE
  /\ mem_poisoned = FALSE
  /\ mem_hung = FALSE
  /\ mem_result = MemNoResult
  /\ mem_issued = {}
  /\ mem_removed = {}

InitBuilderVars ==
  /\ builder = NoBuilder
  /\ builder_result = BuilderNoResult
  /\ view_calls = 0

InitFsVars ==
  /\ buffer = <<>>
  /\ detected = NotDetected

\* a build with both codecs
InitIoVars ==
  /\ lz4_available = TRUE
  /\ zstd_available = TRUE
  /\ encoded = NoBytes
  /\ io_result = IoNoResult

InitPluginVars ==
  /\ plugins = << >>
  /\ metadata = << >>
  /\ plugin_result = PluginNoResult
  /\ registered_ids = {}

Init == /\ InitBuild /\ InitCoreVars /\ InitMemVars /\ InitBuilderVars /\ InitFsVars
        /\ InitIoVars /\ InitPluginVars

\* The registry itself: tables come and go, the host probes handles.
NextRegistry ==
  \/ \E b \in SampleBatches : CreateTableFromBatch(b)
  \/ \E h \in Handles : Dispose(h)
  \/ \E h \in Handles : NumRows(h)

SpecRegistry == Init /\ [][NextRegistry]_vars

\* The operations that derive a new table or column from a registered one.
NextViews ==
  \/ \E b \in SampleBatches : CreateTableFromBatch(b)
  \/ \E h \in Handles : NumRows(h)
  \/ \E h \in Handles, o \in SliceOffsets, l \in SliceLengths : Slice(h, o, l)
  \/ \E h \in Handles, n \in SelectNames : Select(h, n)
  \/ \E h \in Handles : Filter(h)
  \/ \E o \in {"truthy", "falsy", "throws"} : PredicateReturns(o)
  \/ PredicateReenters
  \/ \E h \in Handles, c \in ColumnIndexes, o \in SliceOffsets, l \in SliceLengths :
       ColumnSlice(h, c, o, l)
  \/ \E h \in Handles, c \in ColumnIndexes, t \in TypeIds : Cast(h, c, t)
  \/ \E h \in Handles, c \in ColumnIndexes, i \in TakeIndices : Take(h, c, i)
  \/ \E h \in Handles, c \in ColumnIndexes, m \in Masks : ComputeFilter(h, c, m)
  \/ \E h \in Handles, c \in ColumnIndexes, d \in BOOLEAN : Sort(h, c, d)
  \/ NestedInsert

SpecViews == Init /\ [][NextViews]_vars

\* The table registry of mem.rs.
NextMem ==
  \/ \E s \in MemSchemas, b \in BatchLists : create_table_from_batches(s, b)
  \/ \E h \in Handles : mem_get_table(h)
  \/ \E h \in Handles : free_table(h)
  \/ \E h \in Handles : is_valid_handle(h)
  \/ clear_all_tables

SpecMem == Init /\ [][NextMem]_vars

\* mem.rs with the statistics the host reads between the calls.
NextStats ==
  \/ \E s \in MemSchemas, b \in BatchLists : create_table_from_batches(s, b)
  \/ \E h \in Handles : free_table(h)
  \/ clear_all_tables
  \/ get_table_count
  \/ get_memory_stats

SpecStats == Init /\ [][NextStats]_vars

\* Column and Row views over tables that come and go.
NextAccess ==
  \/ \E b \in SampleBatches : CreateTableFromBatch(b)
  \/ \E h \in Handles : Dispose(h)
  \/ \E h \in Handles, c \in ColumnIndexes, i \in RowIndexes : ColumnGet(h, c, i)
  \/ \E h \in Handles, r \in RowIndexes, i \in ColumnIndexes : RowGetAt(h, r, i)
  \/ \E h \in Handles, r \in RowIndexes, n \in ColumnNames : RowGet(h, r, n)
  \/ \E h \in Handles, c \in ColumnIndexes : ColumnName(h, c)
  \/ \E h \in Handles, c \in ColumnIndexes : ColumnLength(h, c)
  \/ \E h \in Handles, c \in ColumnIndexes : ColumnNullCount(h, c)
  \/ \E h \in Handles, c \in ColumnIndexes, i \in RowIndexes : ColumnIsNull(h, c, i)
  \/ \E h \in Handles, n \in ColumnNames : GetColumn(h, n)

SpecAccess == Init /\ [][NextAccess]_vars

\* The array builder of column.rs.
NextBuilder ==
  \/ \E t \in BuilderTypeIds : NewBuilder(t)
  \/ \E v \in JsValues : BuilderAppend(v)
  \/ BuilderAppendNull
  \/ \E vs \in ValueLists : BuilderAppendValues(vs)
  \/ BuilderClear
  \/ BuilderFinish

SpecBuilder == Init /\ [][NextBuilder]_vars

\* Format detection of fs.rs: any modelled buffer may be the one handed in.
InitFs ==
  /\ InitBuild /\ InitCoreVars /\ InitMemVars /\ InitBuilderVars /\ InitIoVars
  /\ InitPluginVars
  /\ buffer \in Buffers
  /\ detected = NotDetected

NextFs == DetectFormat

SpecFs == InitFs /\ [][NextFs]_vars

\* The plugin registry of plugin.rs.
NextPlugin ==
  \/ \E id \in PluginIds : RegisterPlugin(id)
  \/ \E id \in PluginIds : ValidatePlugin(id)
  \/ \E id \in PluginIds : GetPluginMetadata(id)
  \/ GetPluginInfo
  \/ ClearAllPlugins

SpecPlugin == Init /\ [][NextPlugin]_vars

\* Compression options of ipc.rs, in every build.
InitIpc ==
  /\ InitBuild /\ InitCoreVars /\ InitMemVars /\ InitBuilderVars /\ InitFsVars
  /\ InitPluginVars
  /\ lz4_available \in BOOLEAN
  /\ zstd_available \in BOOLEAN
  /\ encoded = NoBytes
  /\ io_result = IoNoResult

NextIpc ==
  \/ \E b \in BatchLists : create_table_from_batches("A", b)
  \/ \E config \in CompressionConfigs : ToIpcOptions(config)
  \/ \E enable_lz4 \in BOOLEAN : CreateIpcOptions(enable_lz4)
  \/ GetSupportedCompressionTypes
  \/ \E h \in Handles, enable_lz4 \in BOOLEAN : WriteTableWithCompression(h, enable_lz4)

SpecIpc == InitIpc /\ [][NextIpc]_vars

\* Writers and readers: a table is written and the bytes are read back.
NextIo ==
  \/ \E s \in MemSchemas, b \in BatchLists : create_table_from_batches(s, b)
  \/ \E w \in Writers, h \in Handles : WriteTable(w, h)
  \/ \E h \in Handles, enable_lz4 \in BOOLEAN : WriteTableWithCompression(h, enable_lz4)
  \/ ReadTableFromBytes

InitIo == InitIpc /\ zstd_available

SpecIo == InitIo /\ [][NextIo]_vars

\* ================================================================== claims

\* C1: in a handle registry, once a handle has been removed, get(h) is
\* absent in every later state and no later insert returns h again.
\* (core registry; `removed` is the history of removed handles)
C1_RemovedHandleStaysAbsent ==
  \A h \in removed : get(objects, h) = <<>>

\* the same statement of the mem registry, for reference
MemFreedHandleStaysInvalid ==
  \A h \in mem_removed : ~contains_handle(tables, h)

\* C2: insert never returns handle 0, so handle 0 never resolves to a
\* resource in any reachable state.
C2_HandleZeroNeverIssued ==
  /\ 0 \notin issued
  /\ get(objects, 0) = <<>>

\* the same statement of the mem registry, for reference
MemHandleZeroNeverIssued ==
  /\ 0 \notin mem_issued
  /\ ~contains_handle(tables, 0)

\* C3: an insert adds exactly one entry, under the handle it returns, and
\* the resource of a handle that stays live is never replaced or altered.
C3_LiveResourceUntouched ==
  [][ /\ \A h \in DOMAIN objects :
          h \in DOMAIN objects' => objects'[h] = objects[h]
      /\ (DOMAIN objects' # DOMAIN objects /\ result'.op = "create") =>
          /\ result'.handle \notin DOMAIN objects
          /\ DOMAIN objects' = DOMAIN objects \cup {result'.handle} ]_vars

\* C4: mem::get_table / mem::free_table on a handle that is not live end
\* with the error InvalidHandle(h) carrying the requested id, never with a
\* panic or another error, and never block.
C4_NotLiveIsInvalidHandle ==
  (mem_result.op \in {"get_table", "free_table"} /\ ~mem_result.live) =>
    /\ mem_result.kind = "err"
    /\ mem_result.err = "InvalidHandle"
    /\ mem_result.err_handle = mem_result.input

DerivingOps == {"slice", "select", "filter", "column_slice",
                "cast", "take", "compute_filter", "sort"}

\* C5: a call that registers a derived resource never waits for the
\* table-registry lock while the same call holds that lock, and it is never
\* blocked for ever.
C5_InsertNeverWaitsOnOwnLock ==
  call.op \in DerivingOps =>
    /\ call.phase = "nested_lock" => ~lock_held
    /\ call.phase # "deadlocked"

\* C6: at every invocation of the host predicate of Table.filter the
\* table-registry lock is not held.
C6_PredicateRunsUnlocked ==
  call.phase = "predicate" => ~lock_held

\* the preconditions of Table.slice, the sum taken as a mathematical integer
SliceValid(offset, length, rows) ==
  length > 0 /\ offset < rows /\ offset + length <= rows

\* C7: Table.slice on a live table of N rows succeeds if and only if
\* length > 0, offset < N and offset + length <= N; otherwise it returns an
\* error; it never panics (and never hangs).
C7_SliceSucceedsIffInBounds ==
  /\ (result.op = "slice" /\ result.live) =>
       /\ result.kind \in {"ok", "err"}
       /\ result.kind = "ok" <=> SliceValid(result.offset, result.length, result.rows)
  /\ ~(call.op = "slice" /\ call.phase = "deadlocked")

NamesRowCount(msg, rows) ==
  /\ msg.fmt \in {"Slice offset {} is out of bounds. Table has {} rows",
                   "Slice range [{}..{}] exceeds table bounds. Table has {} rows"}
  /\ msg.args[Len(msg.args)] = rows

\* C9: for each violated slice precondition the call returns an error whose
\* message names the table's actual row count.
C9_SliceErrorNamesRowCount ==
  (result.op = "slice" /\ result.live
     /\ ~SliceValid(result.offset, result.length, result.rows)) =>
    /\ result.kind = "err"
    /\ NamesRowCount(result.msg, result.rows)

TransformOps == {"filter", "cast", "take", "compute_filter", "sort"}

C11_ErrorLeavesStateUntouched ==
  [][ /\ builder_result'.kind = "err" => builder'.cells = builder.cells
      /\ result'.kind = "err" => (objects' = objects /\ next_id' = next_id)
      /\ mem_result'.kind = "err" => (tables' = tables /\ next_handle' = next_handle)
    ]_vars

\* C12: when the registry mutex is poisoned, a boundary operation that uses
\* that registry returns an error value (Memory) and does not panic: a call
\* through with_table_registry, and mem create / get / free (create may
\* return its Schema error before it reaches the lock).
C12_PoisonedLockIsMemoryError ==
  [][ /\ (poisoned /\ ~lock_held /\ call.phase = "idle") =>
           result'.kind = "err"
      /\ (mem_poisoned /\ ~mem_lock_held /\ mem_result' # mem_result
            /\ mem_result'.op \in {"create", "get_table", "free_table"}) =>
           /\ mem_result'.kind = "err"
           /\ \/ mem_result'.err = "Memory"
              \/ mem_result'.op = "create" /\ mem_result'.err = "Schema"
    ]_vars

CellAccessors == {"column_get", "row_get", "row_get_at"}

\* C13: every cell accessor (Column.get / getValue, Row.get, Row.getAt)
\* returns, and returns undefined for a position outside the data, null for
\* a null cell inside the data, and the typed value of the cell otherwise.
C13_CellAccessorThreeWay ==
  /\ call.op \in CellAccessors => call.phase # "deadlocked"
  /\ result.op \in CellAccessors =>
       /\ result.kind = "ok"
       /\ ~result.view.inside => result.view.ret = RetUndefined
       /\ (result.view.inside /\ result.view.cell.is_null) => result.view.ret = RetNull
       /\ (result.view.inside /\ ~result.view.cell.is_null) =>
            result.view.ret = RetValue(result.view.type, result.view.cell.value)

\* what an accessor reports when the handle of its view does not resolve
NotResolvable(op) ==
  CASE op = "column_get" -> {RetUndefined}
    [] op = "column_length" -> {RetNumber(0)}
    [] op = "column_null_count" -> {RetNumber(0)}
    [] op = "column_is_null" -> {RetBool(FALSE)}
    [] op = "column_name" -> {RetText(Msg("unknown", <<>>))}
    [] op = "get_column" -> {RetText(Msg("Table has been disposed or is invalid", <<>>))}
    [] op \in {"row_get", "row_get_at"} -> {RetUndefined, RetNull}

\* C14: after Table.dispose of a handle, every accessor of every view on
\* that handle reports the not-resolvable result, in every later state, and
\* never a cell value.
C14_DisposedViewNotResolvable ==
  (result.view.op # "none" /\ result.view.disposed) =>
    /\ result.kind = "ok"
    /\ result.view.ret \in NotResolvable(result.view.op)

\* C15: Table.select(names) on a live table with every name in the schema
\* (the empty list, repeats and reorderings included) succeeds and registers
\* a new table with the source's row count, whose columns are the named
\* columns in the order given, cell for cell.
C15_SelectKeepsRowsAndOrder ==
  [][ /\ \A h \in Handles, names \in SelectNames :
           ( /\ CanLock /\ get(objects, h) # <<>>
             /\ \A k \in 1..Len(names) : names[k] \in FieldNames(get(objects, h)[1])
             /\ Select(h, names) ) =>
           LET batch == get(objects, h)[1] IN
           /\ call'.phase = "nested_lock"
           /\ Len(call'.pending.fields) = Len(names)
           /\ Len(call'.pending.columns) = Len(names)
           /\ \A k \in 1..Len(names) :
                /\ call'.pending.fields[k].name = names[k]
                /\ call'.pending.columns[k] = batch.columns[index_of(batch, names[k])]
      /\ (call.phase = "nested_lock" /\ call.op = "select") =>
           /\ call'.phase = "idle"
           /\ result'.kind = "ok"
           /\ result'.handle \notin DOMAIN objects
           /\ get(objects', result'.handle) = <<call.pending>>
           /\ get(objects', call.handle) = get(objects, call.handle)
    ]_vars

\* C16: Table.select with a name the schema lacks returns an error whose
\* message names the missing column and lists the available column names.
C16_SelectErrorListsAvailable ==
  [][ \A h \in Handles, names \in SelectNames :
        ( /\ CanLock /\ get(objects, h) # <<>>
          /\ \E k \in 1..Len(names) : names[k] \notin FieldNames(get(objects, h)[1])
          /\ Select(h, names) ) =>
        /\ result'.kind = "err"
        /\ Len(result'.msg.args) = 2
        /\ result'.msg.args[1] = FirstMissing(get(objects, h)[1], names)
        /\ result'.msg.args[2] = available_columns(get(objects, h)[1])
    ]_vars

FirstRule(data) ==
  IF Len(data) < 4 THEN 1
  ELSE IF ends_with(data, PAR1) THEN 2
  ELSE IF starts_with(data, ARROW1) THEN 3
  ELSE IF /\ Len(data) >= 8
          /\ SubSeq(data, 1, 4) = CONTINUATION
          /\ from_le_bytes(data, 4) > 0
          /\ from_le_bytes(data, 4) < Len(data)
          /\ from_le_bytes(data, 4) < 100000000 THEN 4
  ELSE IF starts_with(data, FEA1) THEN 5
  ELSE IF \/ SubSeq(data, 1, 4) \in {<<80, 75, 3, 4>>, <<37, 80, 68, 70>>, <<137, 80, 78, 71>>}
          \/ SubSeq(data, 1, 3) \in {<<31, 139, 8>>, <<66, 90, 104>>, <<255, 216, 255>>} THEN 6
  ELSE IF csv_check(data) # NoMatch THEN 7
  ELSE IF headerless_check(data) # NoMatch THEN 8
  ELSE IF binary_check(data) # NoMatch THEN 9
  ELSE 10

RuleOutcomes(rule) ==
  CASE rule = 1 -> {FormatErr("Data too short to determine format")}
    [] rule = 2 -> {FormatOk("Parquet")}
    [] rule = 3 -> {FormatOk("ArrowIpc")}
    [] rule = 4 -> {FormatOk("ArrowStream")}
    [] rule = 5 -> {FormatOk("Feather")}
    [] rule = 6 -> {FormatErr("Detected ZIP archive format - not supported"),
                    FormatErr("Detected GZIP format - not supported"),
                    FormatErr("Detected BZIP2 format - not supported"),
                    FormatErr("Detected PDF format - not supported"),
                    FormatErr("Detected JPEG image format - not supported"),
                    FormatErr("Detected PNG image format - not supported")}
    [] rule = 7 -> {FormatErr("Detected CSV-like format - not supported"),
                    FormatErr("Detected TSV-like format - not supported")}
    [] rule = 8 -> {FormatOk("ArrowIpc")}
    [] rule = 9 -> {FormatErr("Detected binary format that may be corrupted or unsupported")}
    [] OTHER -> {FormatErr("Unable to detect supported file format: ASCII text"),
                 FormatErr("Unable to detect supported file format: Binary data of unknown format")}

C18_FirstMatchingRuleDecides ==
  detected # NotDetected => detected \in RuleOutcomes(FirstRule(buffer))

\* C19: every buffer that begins with the 8-byte Arrow IPC file magic is
\* classified ArrowIpc, whatever bytes follow the magic.
C19_ArrowMagicIsArrowIpc ==
  (detected # NotDetected /\ starts_with(buffer, ARROW1)) =>
    detected = FormatOk("ArrowIpc")

\* C19, amended: every buffer that begins with the 8-byte Arrow IPC file
\* magic and does not end with the Parquet footer magic is classified
\* ArrowIpc, whether or not a schema size follows and passes its validation.
C19_ArrowMagicWithoutParquetFooter ==
  (detected # NotDetected /\ starts_with(buffer, ARROW1) /\ ~ends_with(buffer, PAR1)) =>
    detected = FormatOk("ArrowIpc")

\* C19 witness: a buffer with the file magic and a zero schema size has been
\* classified ArrowIpc.
C19_Witness ==
  /\ detected = FormatOk("ArrowIpc")
  /\ starts_with(buffer, ARROW1)
  /\ Len(buffer) >= 12
  /\ from_le_bytes(buffer, 8) = 0

\* C20: every buffer of at least 4 bytes whose last 4 bytes are "PAR1" is
\* classified Parquet, whether or not the footer length passes its sanity
\* check and whether or not the buffer is shorter than 8 bytes.
C20_ParquetFooterIsParquet ==
  (detected # NotDetected /\ Len(buffer) >= 4 /\ ends_with(buffer, PAR1)) =>
    detected = FormatOk("Parquet")

\* C20 witness: a buffer of 8 bytes or more with a zero footer length before
\* the closing "PAR1" has been classified Parquet.
C20_Witness ==
  /\ detected = FormatOk("Parquet")
  /\ Len(buffer) >= 8
  /\ ends_with(buffer, PAR1)
  /\ from_le_bytes(buffer, Len(buffer) - 8) = 0

\* C21: every buffer that begins with the continuation marker 0xFFFFFFFF
\* followed by a little-endian u32 message length greater than zero is
\* classified ArrowStream, the bare 8-byte header (marker, length 16) included.
C21_ContinuationIsArrowStream ==
  (/\ detected # NotDetected
   /\ Len(buffer) >= 8
   /\ starts_with(buffer, CONTINUATION)
   /\ from_le_bytes(buffer, 4) > 0) =>
    detected = FormatOk("ArrowStream")

\* C22: every buffer of 4 bytes or more that starts with the Feather-v1
\* magic "FEA1" and does not end in "PAR1" is classified Feather.
C22_FeatherMagicIsFeather ==
  (/\ detected # NotDetected
   /\ Len(buffer) >= 4
   /\ starts_with(buffer, FEA1)
   /\ ~ends_with(buffer, PAR1)) =>
    detected = FormatOk("Feather")

\* C23: every buffer of 4 bytes or more that holds only printable ASCII and
\* line breaks, with at least one comma and one newline, gets the "CSV-like
\* format - not supported" diagnostic, whatever its length and first byte.
C23_DelimitedTextIsCsvDiagnostic ==
  (/\ detected # NotDetected
   /\ Len(buffer) >= 4
   /\ \A i \in 1 .. Len(buffer) : buffer[i] \in (32 .. 126) \cup {10, 13}
   /\ contains(buffer, 44)
   /\ contains(buffer, 10)) =>
    detected = FormatErr("Detected CSV-like format - not supported")

\* C24: to_ipc_options with enabled = true fails with a Validation error that
\* enumerates the supported algorithm names when the requested algorithm is
\* not available in the build or is no known name, and succeeds for None,
\* LZ4 (the source's "LZ4_FRAME") and ZSTD when that algorithm is available.
C24_UnavailableAlgorithmListsSupported ==
  [][ \A config \in CompressionConfigs :
        (config.enabled /\ config.compression_type # "LZ4" /\ ToIpcOptions(config)) =>
          IF \/ config.compression_type = "None"
             \/ try_with_compression(config.compression_type)
            THEN io_result'.kind = "ok"
            ELSE /\ io_result'.kind = "err"
                 /\ io_result'.err = "Validation"
                 /\ io_result'.names = get_supported_compression_types ]_vars

\* C25: a call that requests LZ4 in a build without LZ4 never returns
\* uncompressed options or uncompressed bytes: create_ipc_options(true),
\* write_table_with_compression(handle, true) and an enabled LZ4
\* CompressionConfig return an error.
C25_NoSilentDowngrade ==
  [][ ~lz4_available =>
        /\ CreateIpcOptions(TRUE) => io_result'.kind = "err"
        /\ \A h \in Handles :
             WriteTableWithCompression(h, TRUE) => io_result'.kind = "err"
        /\ \A p \in BOOLEAN :
             ToIpcOptions([enabled |-> TRUE, compression_type |-> "LZ4_FRAME",
                           preserve_dict_id |-> p]) => io_result'.kind = "err" ]_vars

\* C26: for every registered table, each writer succeeds and reading its
\* bytes back succeeds and registers a new handle whose table has the row
\* count, column count and batch count of the original, which stays
\* registered and unchanged.
C26_RoundTripKeepsCounts ==
  [][ /\ \A h \in DOMAIN tables :
           /\ \A w \in Writers : WriteTable(w, h) => io_result'.kind = "ok"
           /\ \A z \in BOOLEAN : WriteTableWithCompression(h, z) => io_result'.kind = "ok"
      /\ (/\ encoded # NoBytes
          /\ encoded.source \in DOMAIN tables
          /\ tables[encoded.source] = encoded.table
          /\ ReadTableFromBytes) =>
           /\ io_result'.kind = "ok"
           /\ io_result'.handle \in DOMAIN tables' \ DOMAIN tables
           /\ table_num_rows(tables'[io_result'.handle]) = table_num_rows(encoded.table)
           /\ table_num_columns(tables'[io_result'.handle]) = table_num_columns(encoded.table)
           /\ table_num_batches(tables'[io_result'.handle]) = table_num_batches(encoded.table)
           /\ encoded.source \in DOMAIN tables'
           /\ tables'[encoded.source] = tables[encoded.source] ]_vars

\* C27: after any sequence of create, free and clear_all_tables calls,
\* get_table_count and active_tables are the number of handles created and
\* not since freed or cleared, total_rows and total_batches are the sums over
\* those tables, and after clear_all_tables all three are 0.
C27_StatsCountLiveTables ==
  [][ /\ (mem_result'.op = "create" /\ mem_result'.kind = "ok" /\ mem_result' # mem_result) =>
           Cardinality(DOMAIN tables') = Cardinality(DOMAIN tables) + 1
      /\ (\E h \in Handles : free_table(h) /\ mem_result'.kind = "ok") =>
           Cardinality(DOMAIN tables') = Cardinality(DOMAIN tables) - 1
      /\ clear_all_tables => memory_stats(tables') = memory_stats(<< >>)
      /\ get_table_count =>
           /\ mem_result'.kind = "ok"
           /\ mem_result'.value = Cardinality(DOMAIN tables)
      /\ get_memory_stats =>
           /\ mem_result'.kind = "ok"
           /\ mem_result'.stats.active_tables = Cardinality(DOMAIN tables)
           /\ mem_result'.stats.total_rows = memory_stats(tables).total_rows
           /\ mem_result'.stats.total_batches = memory_stats(tables).total_batches ]_vars

\* C28: register_plugin(id) returns Ok for every id that is non-empty,
\* contains a '.', and has not been registered since the last
\* clear_all_plugins, and each such registration adds one plugin to the list
\* get_plugin_info returns.
C28_WellFormedIdRegisters ==
  [][ \A id \in PluginIds :
        (id # <<"">> /\ Len(id) > 1 /\ id \notin registered_ids /\ RegisterPlugin(id)) =>
          /\ plugin_result'.kind = "ok"
          /\ Cardinality(DOMAIN metadata') = Cardinality(DOMAIN metadata) + 1 ]_vars

\* C29: a plugin is registered under the id the caller supplied: once
\* register_plugin(id) has returned Ok, validate_plugin(id) and
\* get_plugin_metadata(id) succeed until clear_all_plugins, and the plugins
\* map and the metadata map hold the same ids.
C29_RegisteredUnderGivenId ==
  [][ /\ \A id \in registered_ids :
           /\ ValidatePlugin(id) => plugin_result'.kind = "ok"
           /\ GetPluginMetadata(id) => plugin_result'.kind = "ok"
      /\ DOMAIN plugins' = DOMAIN metadata' ]_vars

\* C30: for a builder of every supported type, finish registers a column
\* holding exactly the cells appended since construction, the last clear or
\* the last finish (as many cells, nulls where nulls were appended), and
\* leaves the builder empty.
C30_FinishYieldsAppendedCells ==
  [][ (BuilderFinish /\ builder_result'.kind = "ok") =>
        /\ objects'[builder_result'.handle].columns[1] = builder.cells
        /\ builder'.cells = <<>> ]_vars

====
